---- MODULE Spec2Model ----
(***************************************************************************)
(* Reed-Solomon erasure codec over GF(2^GF_BITS) built from a Vandermonde   *)
(* matrix (fec.c): field tables, linear algebra, encoder constructor,       *)
(* encode, decode, and the one-time table initialisation.                   *)
(***************************************************************************)
EXTENDS Integers, Sequences, FiniteSets, TLC

VARIABLES
    GF_BITS,          \* build parameter: bits of a field element (fec.c:73-75)
    THREADSAFE,       \* build parameter: fec_init uses pthread_once (fec.c:1138)
    gf_exp,           \* static gf gf_exp[2*GF_SIZE]
    gf_log,           \* static gf gf_log[GF_SIZE+1]
    inverse,          \* static gf inverse[GF_SIZE+1]
    gf_mul_table,     \* static gf gf_mul_table[GF_SIZE+1][GF_SIZE+1] (GF_BITS <= 8)
    fec_initialized,  \* the static once-flag of fec_init
    pc,               \* per thread: position inside fec_init / init_fec
    SELFTEST,         \* build parameter: the check_* assertions are compiled in
    init_runs,        \* number of times the body init_fec has been entered
    codec,            \* the descriptor fec_new returned (struct fec_parms)
    data,             \* the caller's k source symbols and their size
    outbuf,           \* the caller's output buffer of fec_encode
    pkts,             \* the caller's array of packet pointers of fec_decode
    idxs,             \* the caller's array of packet indexes of fec_decode
    heap,             \* the packet buffers: pointer -> content
    op                \* the last call of the sequential caller and what it saw

tabvars == <<gf_exp, gf_log, inverse, gf_mul_table>>
buildvars == <<GF_BITS, THREADSAFE, SELFTEST>>
codecvars == <<codec, data, outbuf, pkts, idxs, heap>>
vars == <<GF_BITS, THREADSAFE, SELFTEST, gf_exp, gf_log, inverse, gf_mul_table,
          fec_initialized, pc, init_runs, codec, data, outbuf, pkts, idxs, heap, op>>

-----------------------------------------------------------------------------
(* Integer helpers: C's <<, >>, ^ and & on non-negative integers.           *)

Pow2(n) == 2 ^ n

\* F applied to the value of v, which is computed once: the C code computes
\* an argument or the right-hand side of an assignment once
Eval(v, F(_)) == CHOOSE r \in {F(x) : x \in {v}} : TRUE

\* exclusive or of two 4-bit values, bit by bit
RECURSIVE XorBits(_, _)
XorBits(a, b) ==
    IF a = 0 THEN b
    ELSE IF b = 0 THEN a
    ELSE (((a % 2) + (b % 2)) % 2) + 2 * XorBits(a \div 2, b \div 2)

XorNibble == [a \in 0 .. 15 |-> [b \in 0 .. 15 |-> XorBits(a, b)]]

\* a ^ b, four bits at a time
RECURSIVE Xor(_, _)
Xor(a, b) ==
    IF a = 0 THEN b
    ELSE IF b = 0 THEN a
    ELSE XorNibble[a % 16][b % 16] + 16 * Xor(a \div 16, b \div 16)

\* bit i of a: (a >> i) & 1
Bit(a, i) == (a \div Pow2(i)) % 2

-----------------------------------------------------------------------------
(* Field parameters.                                                        *)

GF_SIZE(m) == Pow2(m) - 1

\* the largest GF_BITS with 8-bit elements and a multiplication table
\* (#if (GF_BITS <= 8), lines 134 and 259)
TableMaxBits == 8

\* typedef uint8_t gf (GF_BITS <= 8) / uint16_t gf: a store into a gf keeps
\* the low 8 or 16 bits.
GfWidth(m) == IF m <= TableMaxBits THEN 8 ELSE 16

ToGf(m, x) == x % Pow2(GfWidth(m))

allPp ==
   << [number |-> 0, string |-> << >>],
      [number |-> 0, string |-> << >>],
      [number |-> 7, string |-> <<"1","1","1">>],
      [number |-> 11, string |-> <<"1","1","0","1">>],
      [number |-> 19, string |-> <<"1","1","0","0","1">>],
      [number |-> 37, string |-> <<"1","0","1","0","0","1">>],
      [number |-> 67, string |-> <<"1","1","0","0","0","0","1">>],
      [number |-> 137, string |-> <<"1","0","0","1","0","0","0","1">>],
      [number |-> 285, string |-> <<"1","0","1","1","1","0","0","0","1">>],
      [number |-> 529, string |-> <<"1","0","0","0","1","0","0","0","0","1">>],
      [number |-> 1033, string |-> <<"1","0","0","1","0","0","0","0","0","0","1">>],
      [number |-> 2053, string |-> <<"1","0","1","0","0","0","0","0","0","0","0","1">>],
      [number |-> 4179, string |-> <<"1","1","0","0","1","0","1","0","0","0","0","0","1">>],
      [number |-> 8219, string |-> <<"1","1","0","1","1","0","0","0","0","0","0","0","0","1">>],
      [number |-> 17475, string |-> <<"1","1","0","0","0","0","1","0","0","0","1","0","0","0","1">>],
      [number |-> 32771, string |-> <<"1","1","0","0","0","0","0","0","0","0","0","0","0","0","0","1">>],
      [number |-> 69643, string |-> <<"1","1","0","1","0","0","0","0","0","0","0","0","1","0","0","0","1">>] >>

-----------------------------------------------------------------------------
(* The field tables.  A table set T is the record of the four static       *)
(* arrays; operators take it explicitly so that code running inside        *)
(* init_fec reads the arrays as they stand at that point.                   *)

\* static storage is zero-initialised
ZeroTables(m) ==
    [ gf_exp       |-> [i \in 0 .. 2 * GF_SIZE(m) - 1 |-> 0],
      gf_log       |-> [i \in 0 .. GF_SIZE(m) |-> 0],
      inverse      |-> [i \in 0 .. GF_SIZE(m) |-> 0],
      gf_mul_table |-> IF m <= TableMaxBits
                       THEN [i \in 0 .. GF_SIZE(m) |-> [j \in 0 .. GF_SIZE(m) |-> 0]]
                       ELSE << >> ]

\* modnn(x): x % GF_SIZE without a divide
RECURSIVE modnn(_, _)
modnn(m, x) ==
    IF x >= GF_SIZE(m)
    THEN LET x1 == x - GF_SIZE(m)
         IN  modnn(m, (x1 \div Pow2(m)) + (x1 % Pow2(m)))
    ELSE ToGf(m, x)

\* generate_gf, first loop: the first GF_BITS powers of alpha are shifted
\* bits; alpha^GF_BITS is accumulated from the primitive polynomial.
RECURSIVE generate_gf_low(_, _, _)
generate_gf_low(m, i, T) ==
    IF i >= m THEN T
    ELSE LET mask == ToGf(m, Pow2(i))
             e1   == [T.gf_exp EXCEPT ![i] = mask]
             l1   == [T.gf_log EXCEPT ![e1[i]] = i]
             e2   == IF allPp[m + 1].string[i + 1] = "1"
                     THEN [e1 EXCEPT ![m] = Xor(e1[m], mask)]
                     ELSE e1
         IN  generate_gf_low(m, i + 1, [T EXCEPT !.gf_exp = e2, !.gf_log = l1])

\* generate_gf, second loop, one iteration: alpha^i is alpha^(i-1) shifted
\* left, reduced by alpha^GF_BITS when the top bit falls out.
generate_gf_high_step(m, i, T) ==
    LET mask == ToGf(m, Pow2(m - 1))
        prev == T.gf_exp[i - 1]
        v    == IF prev >= mask
                THEN ToGf(m, Xor(T.gf_exp[m], Xor(prev, mask) * 2))
                ELSE ToGf(m, prev * 2)
        e1   == [T.gf_exp EXCEPT ![i] = v]
        l1   == [T.gf_log EXCEPT ![e1[i]] = i]
    IN  [T EXCEPT !.gf_exp = e1, !.gf_log = l1]

\* generate_gf, second loop: iterations lo .. hi-1 in order (the range is
\* halved so that the evaluation depth stays logarithmic)
RECURSIVE generate_gf_high(_, _, _, _)
generate_gf_high(m, lo, hi, T) ==
    IF lo >= hi THEN T
    ELSE IF hi = lo + 1 THEN generate_gf_high_step(m, lo, T)
    ELSE LET mid == (lo + hi) \div 2
             T1  == generate_gf_high(m, lo, mid, T)
         IN  \* the test reads the first half's last store, so that the first
             \* half is evaluated before the second half starts
             IF T1.gf_exp[mid - 1] >= 0
             THEN generate_gf_high(m, mid, hi, T1)
             ELSE T1

\* generate_gf, line 385: gf_exp[GF_BITS] = 0
generate_gf_clear(m, T) == [T EXCEPT !.gf_exp[m] = 0]

\* generate_gf, lines 392-437 (everything after the clearing store)
generate_gf_fill(m, T) ==
    LET T1 == generate_gf_low(m, 0, T)
        T2 == [T1 EXCEPT !.gf_log[T1.gf_exp[m]] = m]
        T3 == generate_gf_high(m, m + 1, GF_SIZE(m), T2)
        T4 == [T3 EXCEPT !.gf_log[0] = ToGf(m, GF_SIZE(m))]
        e5 == [i \in DOMAIN T4.gf_exp |->
                 IF i >= GF_SIZE(m) THEN T4.gf_exp[i - GF_SIZE(m)] ELSE T4.gf_exp[i]]
        inv == [i \in DOMAIN T4.inverse |->
                 IF i = 0 THEN 0
                 ELSE IF i = 1 THEN 1
                 ELSE e5[GF_SIZE(m) - T4.gf_log[i]]]
    IN  [T4 EXCEPT !.gf_exp = e5, !.inverse = inv]

generate_gf(m, T) == generate_gf_fill(m, generate_gf_clear(m, T))

\* init_mul_table, first loop (GF_BITS <= 8): every product through exp/log
init_mul_table_fill(m, T) ==
    [i \in 0 .. GF_SIZE(m) |-> [j \in 0 .. GF_SIZE(m) |->
        T.gf_exp[modnn(m, T.gf_log[i] + T.gf_log[j])]]]

\* init_mul_table without the loop that zeroes row 0 and column 0
init_mul_table_keep_zero_row(m, T) ==
    IF m <= TableMaxBits
    THEN [T EXCEPT !.gf_mul_table = init_mul_table_fill(m, T)]
    ELSE T

\* init_mul_table: the fill, then row 0 and column 0 are zeroed.  With
\* GF_BITS > 8 and CODE == ORIGINAL_ONLY the macro expands to nothing.
init_mul_table(m, T) ==
    IF m <= TableMaxBits
    THEN LET f == init_mul_table_fill(m, T)
         IN  [T EXCEPT !.gf_mul_table =
                 [i \in 0 .. GF_SIZE(m) |-> [j \in 0 .. GF_SIZE(m) |->
                     IF i = 0 \/ j = 0 THEN 0 ELSE f[i][j]]]]
    ELSE T

\* gf_mul(x,y): the table (GF_BITS <= 8), or exp[log x + log y] after the
\* test for a zero operand
gf_mul(m, T, x, y) ==
    IF m <= TableMaxBits
    THEN T.gf_mul_table[x][y]
    ELSE IF x = 0 \/ y = 0 THEN 0 ELSE T.gf_exp[T.gf_log[x] + T.gf_log[y]]

\* gf_mul_ref: shift-and-reduce multiplication modulo allPp[GF_BITS].number;
\* top is 1 << GF_BITS and poly the polynomial
RECURSIVE gf_mul_ref_loop(_, _, _, _, _, _)
gf_mul_ref_loop(n, top, poly, a, b, r) ==
    IF n = 0 THEN r
    ELSE gf_mul_ref_loop(n - 1, top, poly,
                         IF ((2 * a) \div top) % 2 = 1 THEN Xor(2 * a, poly) ELSE 2 * a,
                         b \div 2,
                         IF b % 2 = 1 THEN Xor(r, a) ELSE r)

gf_mul_ref(m, x, y) ==
    ToGf(m, gf_mul_ref_loop(m, Pow2(m), allPp[m + 1].number, x, y, 0))

\* init_fec: generate_gf, then init_mul_table
init_fec(m, T) == init_mul_table(m, generate_gf(m, T))

-----------------------------------------------------------------------------
(* Linear algebra over the field.  A matrix or a symbol is a C array: a     *)
(* function on 0 .. len-1, matrices in row-major order.                     *)

UNROLL == 16

\* GF_ADDMULC(dst, x) after GF_MULC0(c): dst ^= c * x, through the table row
\* of c (GF_BITS <= 8) or through &gf_exp[gf_log[c]] with the zero test
GF_ADDMULC(m, T, c, d, x) ==
    IF m <= TableMaxBits
    THEN Xor(d, T.gf_mul_table[c][x])
    ELSE IF x # 0 THEN Xor(d, T.gf_exp[T.gf_log[c] + T.gf_log[x]]) ELSE d

\* addmul1_original without the loop over the final components
addmul1_original_blocks_only(m, T, dst, doff, src, soff, c, sz) ==
    LET blocks == sz \div UNROLL
    IN  [i \in DOMAIN dst |->
            IF i >= doff /\ i < doff + blocks * UNROLL
            THEN GF_ADDMULC(m, T, c, dst[i], src[soff + (i - doff)])
            ELSE dst[i]]

\* addmul1_original on dst[doff .. doff+sz) and src[soff .. soff+sz): whole
\* blocks of UNROLL elements, then the final components one at a time
addmul1_original(m, T, dst, doff, src, soff, c, sz) ==
    LET blocks == sz \div UNROLL
    IN  [i \in DOMAIN dst |->
            IF i >= doff /\ i < doff + blocks * UNROLL
            THEN GF_ADDMULC(m, T, c, dst[i], src[soff + (i - doff)])
            ELSE IF i >= doff + blocks * UNROLL /\ i < doff + sz
            THEN GF_ADDMULC(m, T, c, dst[i], src[soff + (i - doff)])
            ELSE dst[i]]

\* addmul(dst, src, c, sz): if (c != 0) addmul1(dst, src, c, sz)
addmul(m, T, dst, doff, src, soff, c, sz) ==
    IF c # 0 THEN addmul1_original(m, T, dst, doff, src, soff, c, sz) ELSE dst

\* the accumulation loop with pb moved on by one element instead of one row
RECURSIVE matmul_acc_unit_stride(_, _, _, _, _, _, _, _, _)
matmul_acc_unit_stride(m, T, a, pa, b, pb, cols, i, acc) ==
    IF i = 0 THEN acc
    ELSE Eval(Xor(acc, gf_mul(m, T, a[pa], b[pb])), LAMBDA acc1 :
              matmul_acc_unit_stride(m, T, a, pa + 1, b, pb + 1, cols, i - 1, acc1))

\* the accumulation loop of matmul_original for one cell: acc ^= a[..] * b[..]
RECURSIVE matmul_acc(_, _, _, _, _, _, _, _, _)
matmul_acc(m, T, a, pa, b, pb, cols, i, acc) ==
    IF i = 0 THEN acc
    ELSE Eval(Xor(acc, gf_mul(m, T, a[pa], b[pb])), LAMBDA acc1 :
              matmul_acc(m, T, a, pa + 1, b, pb + cols, cols, i - 1, acc1))

\* matmul_original: C = AB, A is n*k at a[aoff..], B is k*cols at b[boff..],
\* C is n*cols at c[coff..]
matmul_original(m, T, a, aoff, b, boff, c, coff, n, k, cols) ==
    [x \in DOMAIN c |->
        IF x >= coff /\ x < coff + n * cols
        THEN LET row == (x - coff) \div cols
                 col == (x - coff) % cols
             IN  matmul_acc(m, T, a, aoff + row * k, b, boff + col, cols, k, 0)
        ELSE c[x]]

\* check_matmul's sum for one cell: XOR over l < k of
\* gf_mul_ref(a[row*k + l], b[l*cols + col]), from l on
RECURSIVE check_matmul_acc(_, _, _, _, _, _, _, _, _)
check_matmul_acc(m, a, aoff, b, row, col, k, cols, l) ==
    IF l >= k THEN 0
    ELSE Xor(gf_mul_ref(m, a[aoff + row * k + l], b[l * cols + col]),
             check_matmul_acc(m, a, aoff, b, row, col, k, cols, l + 1))

\* invert_vdm, lines 1083-1088: the coefficients of Prod (x - p_i)
RECURSIVE invert_vdm_c_inner(_, _, _, _, _, _)
invert_vdm_c_inner(m, T, k, p_i, j, c) ==
    IF j >= k - 1 THEN c
    ELSE Eval([c EXCEPT ![j] = Xor(c[j], gf_mul(m, T, p_i, c[j + 1]))], LAMBDA c1 :
              invert_vdm_c_inner(m, T, k, p_i, j + 1, c1))

RECURSIVE invert_vdm_c(_, _, _, _, _, _)
invert_vdm_c(m, T, k, p, i, c) ==
    IF i >= k THEN c
    ELSE Eval(invert_vdm_c_inner(m, T, k, p[i], k - 1 - (i - 1), c), LAMBDA c1 :
         Eval([c1 EXCEPT ![k - 1] = Xor(c1[k - 1], p[i])], LAMBDA c2 :
              invert_vdm_c(m, T, k, p, i + 1, c2)))

\* invert_vdm, lines 1097-1100: synthetic division for one row; the result
\* is the pair of b and t
RECURSIVE invert_vdm_b(_, _, _, _, _, _, _)
invert_vdm_b(m, T, c, xx, i, b, t) ==
    IF i < 0 THEN [b |-> b, t |-> t]
    ELSE Eval(Xor(c[i + 1], gf_mul(m, T, xx, b[i + 1])), LAMBDA bi :
         Eval([b EXCEPT ![i] = bi], LAMBDA b1 :
         Eval(Xor(gf_mul(m, T, xx, t), bi), LAMBDA t1 :
              invert_vdm_b(m, T, c, xx, i - 1, b1, t1))))

\* the rows of the inverse stored as b[col], without the factor inverse[t]
RECURSIVE invert_vdm_rows_unscaled(_, _, _, _, _, _, _, _)
invert_vdm_rows_unscaled(m, T, k, p, c, row, b, src) ==
    IF row >= k THEN src
    ELSE Eval([b EXCEPT ![k - 1] = 1], LAMBDA b1 :
         Eval(invert_vdm_b(m, T, c, p[row], k - 2, b1, 1), LAMBDA r :
         Eval([x \in DOMAIN src |->
                 IF x < k * k /\ x % k = row
                 THEN r.b[x \div k]
                 ELSE src[x]], LAMBDA s1 :
              invert_vdm_rows_unscaled(m, T, k, p, c, row + 1, r.b, s1))))

\* invert_vdm, lines 1090-1103: the rows of the inverse, stored by column
RECURSIVE invert_vdm_rows(_, _, _, _, _, _, _, _)
invert_vdm_rows(m, T, k, p, c, row, b, src) ==
    IF row >= k THEN src
    ELSE Eval([b EXCEPT ![k - 1] = 1], LAMBDA b1 :
         Eval(invert_vdm_b(m, T, c, p[row], k - 2, b1, 1), LAMBDA r :
         Eval([x \in DOMAIN src |->
                 IF x < k * k /\ x % k = row
                 THEN gf_mul(m, T, T.inverse[r.t], r.b[x \div k])
                 ELSE src[x]], LAMBDA s1 :
              invert_vdm_rows(m, T, k, p, c, row + 1, r.b, s1))))

\* invert_vdm(src, k): src's leading k*k block is replaced by the inverse of
\* the Vandermonde matrix on the p_i of its second column
invert_vdm(m, T, src, k) ==
    IF k = 1 THEN src
    ELSE Eval([i \in 0 .. k - 1 |-> src[1 + i * k]], LAMBDA p :
         Eval([i \in 0 .. k - 1 |-> IF i = k - 1 THEN p[0] ELSE 0], LAMBDA c0 :
         Eval(invert_vdm_c(m, T, k, p, 1, c0), LAMBDA c :
         Eval([i \in 0 .. k - 1 |-> 0], LAMBDA b0 :
              invert_vdm_rows(m, T, k, p, c, 0, b0, src)))))

\* The allocator's view of a call: the sequence of the events call, malloc,
\* free and return, in program order.  A buffer is named by the function f
\* that allocated it, the variable v that holds it and, for new_pkt[row],
\* the row i.  The v of a return is the value returned.
Ev(ev, f, v, i) == <<[ev |-> ev, f |-> f, v |-> v, i |-> i]>>
Enter(f)         == Ev("call", f, "", 0)
Return(f, v)     == Ev("return", f, v, 0)
my_malloc(f, v)  == Ev("malloc", f, v, 0)
free(f, v)       == Ev("free", f, v, 0)

\* invert_vdm: nothing is allocated when k == 1 (line 1062), else c, b and p
\* (lines 1067-1070) are released before the only other return (1104-1107)
invert_vdm_allocs(k) ==
    Enter("invert_vdm") \o
    (IF k = 1 THEN << >>
     ELSE my_malloc("invert_vdm", "c") \o my_malloc("invert_vdm", "b") \o
          my_malloc("invert_vdm", "p") \o
          free("invert_vdm", "c") \o free("invert_vdm", "b") \o
          free("invert_vdm", "p")) \o
    Return("invert_vdm", "0")

\* invert_mat, lines 923-927: the five work arrays
invert_mat_enter ==
    Enter("invert_mat") \o
    my_malloc("invert_mat", "indxc") \o my_malloc("invert_mat", "indxr") \o
    my_malloc("invert_mat", "ipiv") \o my_malloc("invert_mat", "id_row") \o
    my_malloc("invert_mat", "temp_row")

\* invert_mat in which a singular matrix returns at once instead of jumping
\* to the label fail
invert_mat_allocs_return_early(error) ==
    invert_mat_enter \o
    (IF error # 0 THEN << >>
     ELSE free("invert_mat", "indxc") \o free("invert_mat", "indxr") \o
          free("invert_mat", "ipiv") \o free("invert_mat", "id_row") \o
          free("invert_mat", "temp_row")) \o
    Return("invert_mat", IF error # 0 THEN "1" ELSE "0")

\* invert_mat: every goto fail (lines 961, 968, 988) and the fall through
\* with error = 0 (line 1032) reach the label fail, whose statements release
\* the five arrays (lines 1033-1039)
invert_mat_allocs(error) ==
    invert_mat_enter \o
    free("invert_mat", "indxc") \o free("invert_mat", "indxr") \o
    free("invert_mat", "ipiv") \o free("invert_mat", "id_row") \o
    free("invert_mat", "temp_row") \o
    Return("invert_mat", IF error # 0 THEN "1" ELSE "0")

\* SWAP of rows r1 and r2 of a k*k matrix (lines 977-981)
SwapRows(src, k, r1, r2) ==
    [x \in DOMAIN src |->
        IF x \div k = r1 THEN src[r2 * k + (x % k)]
        ELSE IF x \div k = r2 THEN src[r1 * k + (x % k)]
        ELSE src[x]]

\* SWAP of columns c1 and c2 of a k*k matrix (lines 1027-1029)
SwapCols(src, k, c1, c2) ==
    [x \in DOMAIN src |->
        IF x % k = c1 THEN src[(x \div k) * k + c2]
        ELSE IF x % k = c2 THEN src[(x \div k) * k + c1]
        ELSE src[x]]

\* the pivot search without the scan of lines 949-965: the diagonal or nothing
invert_mat_pivot_diagonal(src, k, ipiv, col) ==
    IF ipiv[col] # 1 /\ src[col * k + col] # 0
    THEN [found |-> TRUE, fail |-> FALSE, irow |-> col, icol |-> col]
    ELSE [found |-> FALSE, fail |-> TRUE, irow |-> -1, icol |-> -1]

\* invert_mat, lines 943-969: the pivot for column col.  The diagonal is
\* tried first; otherwise the cells are scanned in row-major order and the
\* first event decides: a usable nonzero cell (found), or a column whose
\* ipiv exceeds 1 (fail).  The scan skips rows with ipiv[row] = 1.
invert_mat_pivot(src, k, ipiv, col) ==
    IF ipiv[col] # 1 /\ src[col * k + col] # 0
    THEN [found |-> TRUE, fail |-> FALSE, irow |-> col, icol |-> col]
    ELSE LET events == {x \in 0 .. k * k - 1 :
                          /\ ipiv[x \div k] # 1
                          /\ \/ ipiv[x % k] = 0 /\ src[x] # 0
                             \/ ipiv[x % k] > 1}
         IN  IF events = {}
             THEN [found |-> FALSE, fail |-> TRUE, irow |-> -1, icol |-> -1]
             ELSE LET x == CHOOSE e \in events : \A f \in events : e <= f
                  IN  IF ipiv[x % k] = 0
                      THEN [found |-> TRUE, fail |-> FALSE,
                            irow |-> x \div k, icol |-> x % k]
                      ELSE [found |-> FALSE, fail |-> TRUE, irow |-> -1, icol |-> -1]

\* the scaling of the pivot row without the store of 1 into the pivot cell
\* (line 997)
invert_mat_scale_keep_pivot(m, T, src, k, icol) ==
    LET c == src[icol * k + icol]
    IN  IF c # 1
        THEN [x \in DOMAIN src |->
                IF x \div k = icol
                THEN gf_mul(m, T, T.inverse[c], src[x])
                ELSE src[x]]
        ELSE src

\* invert_mat, lines 990-1000: the pivot row scaled by the inverse of the
\* pivot, the pivot cell first set to 1
invert_mat_scale(m, T, src, k, icol) ==
    LET c == src[icol * k + icol]
    IN  IF c # 1
        THEN [x \in DOMAIN src |->
                IF x \div k = icol
                THEN gf_mul(m, T, T.inverse[c], IF x % k = icol THEN 1 ELSE src[x])
                ELSE src[x]]
        ELSE src

\* invert_mat, lines 1010-1016: multiples of the pivot row are removed from
\* the rows ix .. k-1 other than the pivot row
RECURSIVE invert_mat_eliminate(_, _, _, _, _, _)
invert_mat_eliminate(m, T, src, k, icol, ix) ==
    IF ix >= k THEN src
    ELSE IF ix = icol THEN invert_mat_eliminate(m, T, src, k, icol, ix + 1)
    ELSE Eval(src[ix * k + icol], LAMBDA c :
         Eval([src EXCEPT ![ix * k + icol] = 0], LAMBDA s1 :
         Eval(addmul(m, T, s1, ix * k, s1, icol * k, c, k), LAMBDA s2 :
              invert_mat_eliminate(m, T, s2, k, icol, ix + 1))))

\* invert_mat, lines 937-1019: the columns col .. k-1; S holds src, ipiv,
\* indxr, indxc, and failed (a goto fail was taken)
RECURSIVE invert_mat_cols(_, _, _, _, _)
invert_mat_cols(m, T, k, col, S) ==
    IF col >= k THEN S
    ELSE Eval(invert_mat_pivot(S.src, k, S.ipiv, col), LAMBDA pv :
         IF pv.fail THEN [S EXCEPT !.failed = TRUE]
         ELSE Eval(IF pv.irow # pv.icol
                   THEN SwapRows(S.src, k, pv.irow, pv.icol)
                   ELSE S.src, LAMBDA s1 :
              Eval([S EXCEPT !.ipiv[pv.icol] = @ + 1, !.src = s1,
                             !.indxr[col] = pv.irow,
                             !.indxc[col] = pv.icol], LAMBDA S1 :
              IF s1[pv.icol * k + pv.icol] = 0
              THEN [S1 EXCEPT !.failed = TRUE]
              ELSE Eval(invert_mat_scale(m, T, s1, k, pv.icol), LAMBDA s2 :
                   LET id_row == [i \in 0 .. k - 1 |-> IF i = pv.icol THEN 1 ELSE 0]
                       pivot_row == [i \in 0 .. k - 1 |-> s2[pv.icol * k + i]]
                   IN  Eval(IF pivot_row # id_row
                            THEN invert_mat_eliminate(m, T, s2, k, pv.icol, 0)
                            ELSE s2, LAMBDA s3 :
                       Eval([S1 EXCEPT !.src = s3], LAMBDA S2 :
                            invert_mat_cols(m, T, k, col + 1, S2)))))))

\* invert_mat, lines 1020-1031: the column swaps are undone, last first
RECURSIVE invert_mat_unswap(_, _, _, _, _)
invert_mat_unswap(src, k, indxr, indxc, col) ==
    IF col < 0 THEN src
    ELSE Eval(IF indxr[col] # indxc[col]
              THEN SwapCols(src, k, indxr[col], indxc[col])
              ELSE src, LAMBDA s1 :
              invert_mat_unswap(s1, k, indxr, indxc, col - 1))

\* invert_mat(src, k): [error, src]; error is nonzero if src is singular,
\* and src is then left as the elimination stood
invert_mat(m, T, src, k) ==
    Eval([src |-> src,
          ipiv  |-> [i \in 0 .. k - 1 |-> 0],
          indxr |-> [i \in 0 .. k - 1 |-> 0],
          indxc |-> [i \in 0 .. k - 1 |-> 0],
          failed |-> FALSE], LAMBDA S0 :
    Eval(invert_mat_cols(m, T, k, 0, S0), LAMBDA S :
         IF S.failed
         THEN [error |-> 1, src |-> S.src]
         ELSE [error |-> 0, src |-> invert_mat_unswap(S.src, k, S.indxr, S.indxc, k - 1)]))

-----------------------------------------------------------------------------
(* The codec: fec_new, fec_encode, fec_decode.                              *)

\* the code descriptor before fec_new has returned one
NULL == [k |-> 0, n |-> 0, enc_matrix |-> << >>, null |-> TRUE]

\* the matrix of powers with the exponent taken from the matrix row itself
fec_new_tmp_m_own_row(m, T, k, n) ==
    [x \in 0 .. n * k - 1 |->
        IF x \div k = 0
        THEN (IF x = 0 THEN 1 ELSE 0)
        ELSE T.gf_exp[modnn(m, (x \div k) * (x % k))]]

\* fec_new, lines 1211-1217: the matrix of powers.  Row 0 is (1,0,...,0);
\* the loop variable row runs from 0 and fills the matrix row row+1.
fec_new_tmp_m(m, T, k, n) ==
    [x \in 0 .. n * k - 1 |->
        IF x \div k = 0
        THEN (IF x = 0 THEN 1 ELSE 0)
        ELSE LET row == (x \div k) - 1
                 col == x % k
             IN  T.gf_exp[modnn(m, row * col)]]

\* fec_new without the loop of lines 1253-1255
fec_new_identity_skip(enc, k) == enc

\* fec_new, lines 1253-1255: the upper k*k block becomes the identity
fec_new_identity(enc, k) ==
    [x \in DOMAIN enc |->
        IF x < k * k
        THEN (IF x \div k = x % k THEN 1 ELSE 0)
        ELSE enc[x]]

\* fec_new, lines 1200-1265, for 1 <= k: the descriptor.  Every cell of the
\* two allocated matrices is stored before it is read.
fec_new_build(m, T, k, n) ==
    Eval(fec_new_tmp_m(m, T, k, n), LAMBDA tmp_m0 :
    Eval(invert_vdm(m, T, tmp_m0, k), LAMBDA tmp_m :
    Eval([x \in 0 .. n * k - 1 |-> 0], LAMBDA enc0 :
    Eval(matmul_original(m, T, tmp_m, k * k, tmp_m, 0, enc0, k * k, n - k, k, k), LAMBDA enc1 :
         [k |-> k, n |-> n, enc_matrix |-> fec_new_identity(enc1, k), null |-> FALSE]))))

\* fec_new: nothing is allocated before the return of line 1198; after it
\* the descriptor, its matrix and tmp_m are allocated (lines 1200-1205),
\* invert_vdm runs (line 1237) and tmp_m is released (line 1260).  A call
\* that ends in exit(1) never returns; its events are kept up to the first
\* allocation.
fec_new_allocs(k, ret) ==
    Enter("fec_new") \o
    (IF ret = "NULL" THEN Return("fec_new", "NULL")
     ELSE IF ret = "exit" THEN my_malloc("fec_new", "retval")
     ELSE my_malloc("fec_new", "retval") \o my_malloc("fec_new", "enc_matrix") \o
          my_malloc("fec_new", "tmp_m") \o
          invert_vdm_allocs(k) \o free("fec_new", "tmp_m") \o
          Return("fec_new", "desc"))

\* fec_new(k, n) after fec_init: the set of results the call can have, each
\* [ret, code].  ret is "NULL" (line 1198), "desc" (line 1265) or "exit"
\* (my_malloc's exit(1)).  With k < 1 the guard of line 1195 lets the call
\* through: for k < 0 an allocation of k*sizeof(gf) bytes fails in my_malloc;
\* for k = 0 line 1211 stores through a zero-sized allocation and line 1082
\* reads p[0] and stores c[-1], after which the call either returns the
\* descriptor or the process dies.
fec_new(m, T, k, n) ==
    IF k > GF_SIZE(m) + 1 \/ n > GF_SIZE(m) + 1 \/ k > n
    THEN {[ret |-> "NULL", code |-> NULL, allocs |-> fec_new_allocs(k, "NULL")]}
    ELSE IF k >= 1
    THEN {[ret |-> "desc", code |-> fec_new_build(m, T, k, n),
           allocs |-> fec_new_allocs(k, "desc")]}
    ELSE IF k = 0
    THEN {[ret |-> "desc",
           code |-> [k |-> 0, n |-> n, enc_matrix |-> << >>, null |-> FALSE],
           allocs |-> fec_new_allocs(k, "desc")],
          [ret |-> "exit", code |-> NULL, allocs |-> fec_new_allocs(k, "exit")]}
    ELSE {[ret |-> "exit", code |-> NULL, allocs |-> fec_new_allocs(k, "exit")]}

\* the number of field elements in a symbol of sz bytes (#if (GF_BITS > 8)
\* sz /= 2, lines 1279-1281 and 1389-1391)
Elements(m, sz) == IF m > TableMaxBits THEN sz \div 2 ELSE sz

\* fec_encode, lines 1288-1289: the source symbols i .. k-1 are accumulated
RECURSIVE fec_encode_acc(_, _, _, _, _, _, _, _)
fec_encode_acc(m, T, code, src, fec, index, el, i) ==
    IF i >= code.k THEN fec
    ELSE Eval(addmul(m, T, fec, 0, src[i], 0, code.enc_matrix[index * code.k + i], el),
              LAMBDA fec1 : fec_encode_acc(m, T, code, src, fec1, index, el, i + 1))

\* fec_encode without the memset of line 1287
fec_encode_no_memset(m, T, code, src, fec, index, sz) ==
    LET el == Elements(m, sz)
    IN  IF index < code.k
        THEN [fec |-> [j \in DOMAIN fec |-> IF j < el THEN src[index][j] ELSE fec[j]],
              stderr |-> FALSE]
        ELSE IF index < code.n
        THEN [fec |-> fec_encode_acc(m, T, code, src, fec, index, el, 0),
              stderr |-> FALSE]
        ELSE [fec |-> fec, stderr |-> TRUE]

\* fec_encode(code, src, fec, index, sz) for 0 <= index: the content of the
\* buffer fec after the call and whether line 1292 wrote to stderr.  The
\* function is void.
fec_encode(m, T, code, src, fec, index, sz) ==
    LET el == Elements(m, sz)
    IN  IF index < code.k
        THEN [fec |-> [j \in DOMAIN fec |-> IF j < el THEN src[index][j] ELSE fec[j]],
              stderr |-> FALSE]
        ELSE IF index < code.n
        THEN Eval([j \in DOMAIN fec |-> IF j < el THEN 0 ELSE fec[j]], LAMBDA fec0 :
                  [fec |-> fec_encode_acc(m, T, code, src, fec0, index, el, 0),
                   stderr |-> FALSE])
        ELSE [fec |-> fec, stderr |-> TRUE]

\* The caller's arrays pkt[] and index[] are functions on -1 .. k-1: slot -1
\* is the word of the caller's memory that lies just before element 0.  It
\* is not part of the array; shuffle reaches it when an index is negative.
WILD == -1

\* shuffle without the SWAP of the packet pointers (line 1318)
RECURSIVE shuffle_loop_index_only(_, _, _)
shuffle_loop_index_only(k, i, S) ==
    IF i >= k THEN [S EXCEPT !.ret = 0]
    ELSE IF S.index[i] >= k \/ S.index[i] = i THEN shuffle_loop_index_only(k, i + 1, S)
    ELSE LET c == S.index[i]
         IN  IF S.index[c] = c
             THEN [S EXCEPT !.ret = 1, !.stray = @ \/ c < 0]
             ELSE Eval([S EXCEPT !.index = [@ EXCEPT ![i] = S.index[c], ![c] = S.index[i]],
                                 !.stray = @ \/ c < 0],
                       LAMBDA S1 : shuffle_loop_index_only(k, i, S1))

\* shuffle with the conflict of line 1313 answered by return 0
RECURSIVE shuffle_loop_conflict_ok(_, _, _)
shuffle_loop_conflict_ok(k, i, S) ==
    IF i >= k THEN [S EXCEPT !.ret = 0]
    ELSE IF S.index[i] >= k \/ S.index[i] = i THEN shuffle_loop_conflict_ok(k, i + 1, S)
    ELSE LET c == S.index[i]
         IN  IF S.index[c] = c
             THEN [S EXCEPT !.ret = 0, !.stray = @ \/ c < 0]
             ELSE Eval([S EXCEPT !.index = [@ EXCEPT ![i] = S.index[c], ![c] = S.index[i]],
                                 !.pkt   = [@ EXCEPT ![i] = S.pkt[c], ![c] = S.pkt[i]],
                                 !.stray = @ \/ c < 0],
                       LAMBDA S1 : shuffle_loop_conflict_ok(k, i, S1))

\* shuffle with the test of line 1305 written index[i] > k
RECURSIVE shuffle_loop_test_above(_, _, _)
shuffle_loop_test_above(k, i, S) ==
    IF i >= k THEN [S EXCEPT !.ret = 0]
    ELSE IF S.index[i] > k \/ S.index[i] = i
    THEN shuffle_loop_test_above(k, i + 1,
                                 [S EXCEPT !.steps = @ + 1, !.pos = @ \cup {i}])
    ELSE LET c == S.index[i]
         IN  IF S.index[c] = c
             THEN [S EXCEPT !.ret = 1, !.stray = @ \/ c < 0,
                            !.steps = @ + 1, !.pos = @ \cup {i, c}]
             ELSE Eval([S EXCEPT !.index = [@ EXCEPT ![i] = S.index[c], ![c] = S.index[i]],
                                 !.pkt   = [@ EXCEPT ![i] = S.pkt[c], ![c] = S.pkt[i]],
                                 !.stray = @ \/ c < 0,
                                 !.steps = @ + 1, !.swaps = @ + 1,
                                 !.pos = @ \cup {i, c}],
                       LAMBDA S1 : shuffle_loop_test_above(k, i, S1))

\* shuffle, lines 1304-1320, from position i on.  S holds index, pkt,
\* stray (memory outside the arrays was read or written), steps (passes
\* through the loop body), swaps (passes that reach the two SWAPs) and pos
\* (the positions of index[] and pkt[] read or written).
RECURSIVE shuffle_loop(_, _, _)
shuffle_loop(k, i, S) ==
    IF i >= k THEN [S EXCEPT !.ret = 0]
    ELSE IF S.index[i] >= k \/ S.index[i] = i
    THEN shuffle_loop(k, i + 1, [S EXCEPT !.steps = @ + 1, !.pos = @ \cup {i}])
    ELSE LET c == S.index[i]
         IN  IF S.index[c] = c
             THEN [S EXCEPT !.ret = 1, !.stray = @ \/ c < 0,
                            !.steps = @ + 1, !.pos = @ \cup {i, c}]
             ELSE Eval([S EXCEPT !.index = [@ EXCEPT ![i] = S.index[c], ![c] = S.index[i]],
                                 !.pkt   = [@ EXCEPT ![i] = S.pkt[c], ![c] = S.pkt[i]],
                                 !.stray = @ \/ c < 0,
                                 !.steps = @ + 1, !.swaps = @ + 1,
                                 !.pos = @ \cup {i, c}],
                       LAMBDA S1 : shuffle_loop(k, i, S1))

\* shuffle(pkt, index, k): [ret, index, pkt, stray, steps, swaps, pos]
shuffle(pkt, index, k) ==
    Eval([ret |-> 0, index |-> index, pkt |-> pkt, stray |-> FALSE,
          steps |-> 0, swaps |-> 0, pos |-> {}],
         LAMBDA S : shuffle_loop(k, 0, S))

\* build_decode_matrix, lines 1346-1361: the k*k matrix before inversion, or
\* invalid when an index is not below n
build_decode_rows(code, index) ==
    LET k == code.k
    IN  IF \E i \in 0 .. k - 1 : index[i] >= k /\ index[i] >= code.n
        THEN [invalid |-> TRUE, matrix |-> << >>]
        ELSE [invalid |-> FALSE,
              matrix |-> [x \in 0 .. k * k - 1 |->
                            LET i == x \div k
                            IN  IF index[i] < k
                                THEN (IF x % k = i THEN 1 ELSE 0)
                                ELSE code.enc_matrix[index[i] * k + (x % k)]]]

\* build_decode_matrix: the matrix is allocated on entry (line 1343),
\* released before the return NULL of an invalid index (lines 1357-1359)
\* and after a failed invert_mat (line 1364), and returned otherwise
build_decode_matrix_allocs(invalid, error) ==
    Enter("build_decode_matrix") \o
    my_malloc("build_decode_matrix", "matrix") \o
    (IF invalid
     THEN free("build_decode_matrix", "matrix") \o
          Return("build_decode_matrix", "NULL")
     ELSE invert_mat_allocs(error) \o
          (IF error # 0
           THEN free("build_decode_matrix", "matrix") \o
                Return("build_decode_matrix", "NULL")
           ELSE Return("build_decode_matrix", "matrix")))

\* build_decode_matrix(code, index): [null, matrix]; null after an invalid
\* index or a singular matrix
build_decode_matrix(m, T, code, index) ==
    Eval(build_decode_rows(code, index), LAMBDA rows :
         IF rows.invalid
         THEN [null |-> TRUE, matrix |-> << >>,
               allocs |-> build_decode_matrix_allocs(TRUE, 0)]
         ELSE Eval(invert_mat(m, T, rows.matrix, code.k), LAMBDA inv :
                   IF inv.error # 0
                   THEN [null |-> TRUE, matrix |-> << >>,
                         allocs |-> build_decode_matrix_allocs(FALSE, inv.error)]
                   ELSE [null |-> FALSE, matrix |-> inv.src,
                         allocs |-> build_decode_matrix_allocs(FALSE, 0)]))

\* fec_decode, lines 1405-1408: the packet rebuilt for one row, accumulated
\* into new_pkt over the columns col .. k-1 from the received packets
RECURSIVE fec_decode_row(_, _, _, _, _, _, _, _, _, _)
fec_decode_row(m, T, k, m_dec, pkt, mem, el, row, col, new_pkt) ==
    IF col >= k THEN new_pkt
    ELSE Eval(addmul(m, T, new_pkt, 0, mem[pkt[col]], 0, m_dec[row * k + col], el),
              LAMBDA p : fec_decode_row(m, T, k, m_dec, pkt, mem, el, row, col + 1, p))

\* the accesses of fec_decode to the packet buffers, in program order: a read
\* of pkt[col] by the addmul that rebuilds row, a write of pkt[row] by memcpy
Access(ev, buf, row) == <<[ev |-> ev, buf |-> buf, row |-> row]>>

\* line 1408 for one row: addmul reads pkt[col] when the coefficient is not
\* zero and the symbol has elements
RECURSIVE fec_decode_row_reads(_, _, _, _, _, _)
fec_decode_row_reads(k, m_dec, pkt, el, row, col) ==
    IF col >= k THEN << >>
    ELSE (IF m_dec[row * k + col] # 0 /\ el > 0
          THEN Access("read", pkt[col], row) ELSE << >>) \o
         fec_decode_row_reads(k, m_dec, pkt, el, row, col + 1)

\* memcpy(pkt[row], new_pkt[row], sz*sizeof(gf)), line 1416
fec_decode_store(mem, b, new, el) ==
    [mem EXCEPT ![b] = [j \in DOMAIN mem[b] |->
                          IF j < el THEN new[j] ELSE mem[b][j]]]

\* a decoder that moves each rebuilt packet to its destination as soon as it
\* is computed, in one loop over the rows
RECURSIVE fec_decode_recover_rows_in_place(_, _, _, _, _, _, _, _, _)
fec_decode_recover_rows_in_place(m, T, k, m_dec, pkt, index, el, row, R) ==
    IF row >= k THEN R
    ELSE IF index[row] < k
    THEN fec_decode_recover_rows_in_place(m, T, k, m_dec, pkt, index, el, row + 1, R)
    ELSE Eval(fec_decode_row(m, T, k, m_dec, pkt, R.mem, el, row, 0,
                             [j \in 0 .. el - 1 |-> 0]), LAMBDA new :
         Eval([mem |-> fec_decode_store(R.mem, pkt[row], new, el),
               access |-> R.access \o
                          fec_decode_row_reads(k, m_dec, pkt, el, row, 0) \o
                          Access("write", pkt[row], row)], LAMBDA R1 :
              fec_decode_recover_rows_in_place(m, T, k, m_dec, pkt, index, el,
                                               row + 1, R1)))

fec_decode_recover_in_place(m, T, k, m_dec, pkt, index, mem, el) ==
    fec_decode_recover_rows_in_place(m, T, k, m_dec, pkt, index, el, 0,
                                     [mem |-> mem, access |-> << >>])

\* first loop, lines 1403-1410: new_pkt[row] is rebuilt for every row whose
\* index is not below k, from row on; N holds new_pkt and the accesses
RECURSIVE fec_decode_rebuild(_, _, _, _, _, _, _, _, _, _)
fec_decode_rebuild(m, T, k, m_dec, pkt, index, mem, el, row, N) ==
    IF row >= k THEN N
    ELSE IF index[row] < k
    THEN fec_decode_rebuild(m, T, k, m_dec, pkt, index, mem, el, row + 1, N)
    ELSE Eval(fec_decode_row(m, T, k, m_dec, pkt, mem, el, row, 0,
                             [j \in 0 .. el - 1 |-> 0]), LAMBDA new :
         Eval([new_pkt |-> (row :> new) @@ N.new_pkt,
               access |-> N.access \o
                          fec_decode_row_reads(k, m_dec, pkt, el, row, 0)], LAMBDA N1 :
              fec_decode_rebuild(m, T, k, m_dec, pkt, index, mem, el, row + 1, N1)))

\* second loop, lines 1414-1419: the rebuilt packets are moved to their
\* destinations, from row on; R holds the memory and the accesses
RECURSIVE fec_decode_move(_, _, _, _, _, _, _)
fec_decode_move(k, pkt, index, new_pkt, el, row, R) ==
    IF row >= k THEN R
    ELSE IF index[row] < k
    THEN fec_decode_move(k, pkt, index, new_pkt, el, row + 1, R)
    ELSE Eval([mem |-> fec_decode_store(R.mem, pkt[row], new_pkt[row], el),
               access |-> R.access \o Access("write", pkt[row], row)], LAMBDA R1 :
              fec_decode_move(k, pkt, index, new_pkt, el, row + 1, R1))

\* fec_decode, lines 1402-1419, on the memory mem: [mem, access]
fec_decode_recover(m, T, k, m_dec, pkt, index, mem, el) ==
    Eval(fec_decode_rebuild(m, T, k, m_dec, pkt, index, mem, el, 0,
                            [new_pkt |-> << >>, access |-> << >>]), LAMBDA N :
         fec_decode_move(k, pkt, index, N.new_pkt, el, 0,
                         [mem |-> mem, access |-> N.access]))

\* fec_decode, the loops of lines 1403 and 1414: one event ev for each row
\* from row on whose index is not below k, in the order of the rows
RECURSIVE fec_decode_new_pkt(_, _, _, _)
fec_decode_new_pkt(ev, index, k, row) ==
    IF row >= k THEN << >>
    ELSE (IF index[row] >= k THEN Ev(ev, "fec_decode", "new_pkt[row]", row)
          ELSE << >>) \o fec_decode_new_pkt(ev, index, k, row + 1)

\* fec_decode after build_decode_matrix returned a matrix: new_pkt and one
\* buffer per rebuilt row are allocated (lines 1402-1405), the buffers, then
\* new_pkt, then the decode matrix are released (lines 1417-1421)
fec_decode_allocs(index, k) ==
    my_malloc("fec_decode", "new_pkt") \o
    fec_decode_new_pkt("malloc", index, k, 0) \o
    fec_decode_new_pkt("free", index, k, 0) \o
    free("fec_decode", "new_pkt") \o
    free("build_decode_matrix", "matrix")

\* fec_decode(code, pkt, index, sz) on the memory mem (buffer -> content):
\* [ret, pkt, index, mem, stray].  stray: memory outside the caller's arrays
\* and buffers was read or written.
fec_decode(m, T, code, pkt, index, mem, sz) ==
    LET k  == code.k
        el == Elements(m, sz)
    IN  Eval(shuffle(pkt, index, k), LAMBDA sh :
        IF sh.ret # 0
        THEN [ret |-> 1, pkt |-> sh.pkt, index |-> sh.index, mem |-> mem,
              stray |-> sh.stray, access |-> << >>,
              allocs |-> Enter("fec_decode") \o Return("fec_decode", "1")]
        ELSE Eval(build_decode_matrix(m, T, code, sh.index), LAMBDA md :
             IF md.null
             THEN [ret |-> 1, pkt |-> sh.pkt, index |-> sh.index, mem |-> mem,
                   stray |-> sh.stray, access |-> << >>,
                   allocs |-> Enter("fec_decode") \o md.allocs \o
                              Return("fec_decode", "1")]
             ELSE Eval(fec_decode_recover(m, T, k, md.matrix, sh.pkt, sh.index, mem, el),
                       LAMBDA rc :
                  [ret |-> 0, pkt |-> sh.pkt, index |-> sh.index,
                   mem |-> rc.mem,
                   stray |-> sh.stray \/
                             \E a \in DOMAIN rc.access : rc.access[a].buf = WILD,
                   access |-> rc.access,
                   allocs |-> Enter("fec_decode") \o md.allocs \o
                              fec_decode_allocs(sh.index, k) \o
                              Return("fec_decode", "0")])))

-----------------------------------------------------------------------------
(* Bounds of the model.                                                     *)

\* field sizes explored by the table specification: 2 .. MaxBitsSmall, which
\* use the multiplication table, and the first size that uses the exp/log
\* form of gf_mul
MaxBitsSmall == 4
\* threads racing through fec_init
NThreads == 2

GFBitsRange == (2 .. MaxBitsSmall) \cup {TableMaxBits + 1}

\* the arrays as they stand in the current state
Tables ==
    [ gf_exp |-> gf_exp, gf_log |-> gf_log, inverse |-> inverse,
      gf_mul_table |-> gf_mul_table ]

SetTables(T) ==
    /\ gf_exp' = T.gf_exp
    /\ gf_log' = T.gf_log
    /\ inverse' = T.inverse
    /\ gf_mul_table' = T.gf_mul_table

\* the state of the process before the first call
InitBuild(bits, ts, st, nthreads) ==
    /\ GF_BITS \in bits
    /\ THREADSAFE \in ts
    /\ SELFTEST \in st
    /\ gf_exp = ZeroTables(GF_BITS).gf_exp
    /\ gf_log = ZeroTables(GF_BITS).gf_log
    /\ inverse = ZeroTables(GF_BITS).inverse
    /\ gf_mul_table = ZeroTables(GF_BITS).gf_mul_table
    /\ fec_initialized = 0
    /\ init_runs = 0
    /\ pc = [t \in 1 .. nthreads |-> [at |-> "idle"]]
    /\ codec = NULL
    /\ data = << >>
    /\ outbuf = << >>
    /\ pkts = << >>
    /\ idxs = << >>
    /\ heap = << >>
    /\ op = [name |-> "none"]

-----------------------------------------------------------------------------
(* fec_init and init_fec, one statement group per step.                     *)
(* fec_initialized: 0 = not initialised, 1 = initialised, 2 = pthread_once  *)
(* has a caller inside init_fec (THREADSAFE only).                          *)

At(t, where) == pc[t].at = where
Goto(t, where) == pc' = [pc EXCEPT ![t] = [at |-> where]]
Aborted == \E t \in DOMAIN pc : pc[t].at = "aborted"

\* fec_init with the plain test of the flag in every build
FecInitCall_Unguarded(t) ==
    /\ ~Aborted
    /\ pc[t].at \in {"idle", "returned"}
    /\ IF fec_initialized # 1
       THEN /\ init_runs' = init_runs + 1
            /\ Goto(t, "generate_gf_clear")
            /\ UNCHANGED fec_initialized
       ELSE /\ Goto(t, "returned")
            /\ UNCHANGED <<fec_initialized, init_runs>>
    /\ UNCHANGED <<buildvars, tabvars, codecvars, op>>

\* fec_init that runs init_fec on every call, whatever the flag holds
FecInitCall_Always(t) ==
    /\ ~Aborted
    /\ pc[t].at \in {"idle", "returned"}
    /\ init_runs' = init_runs + 1
    /\ Goto(t, "generate_gf_clear")
    /\ UNCHANGED <<fec_initialized, buildvars, tabvars, codecvars, op>>

\* fec_init entry: pthread_once(&fec_initialized, init_fec) (line 1141), or the
\* test of the flag (line 1145)
FecInitCall(t) ==
    /\ ~Aborted
    /\ pc[t].at \in {"idle", "returned"}
    /\ IF THREADSAFE
       THEN \/ /\ fec_initialized = 0
               /\ fec_initialized' = 2
               /\ init_runs' = init_runs + 1
               /\ Goto(t, "generate_gf_clear")
            \/ /\ fec_initialized = 1
               /\ Goto(t, "returned")
               /\ UNCHANGED <<fec_initialized, init_runs>>
            \* fec_initialized = 2: pthread_once blocks the caller
       ELSE IF fec_initialized = 0
            THEN /\ init_runs' = init_runs + 1
                 /\ Goto(t, "generate_gf_clear")
                 /\ UNCHANGED fec_initialized
            ELSE /\ Goto(t, "returned")
                 /\ UNCHANGED <<fec_initialized, init_runs>>
    /\ UNCHANGED <<buildvars, tabvars, codecvars, op>>

\* generate_gf, line 385
GenerateGfClear(t) ==
    /\ ~Aborted
    /\ At(t, "generate_gf_clear")
    /\ SetTables(generate_gf_clear(GF_BITS, Tables))
    /\ Goto(t, "generate_gf_fill")
    /\ UNCHANGED <<buildvars, fec_initialized, init_runs, codecvars, op>>

\* generate_gf, lines 392-437; check_gf follows when SELFTEST is defined
GenerateGfFill(t) ==
    /\ ~Aborted
    /\ At(t, "generate_gf_fill")
    /\ SetTables(generate_gf_fill(GF_BITS, Tables))
    /\ IF SELFTEST
       THEN pc' = [pc EXCEPT ![t] = [at |-> "check_gf", i |-> 0]]
       ELSE Goto(t, "init_mul_table")
    /\ UNCHANGED <<buildvars, fec_initialized, init_runs, codecvars, op>>

\* the assertions of check_gf for one value of i (lines 1479-1491)
check_gf_row(m, T, i) ==
    /\ i # 0 => /\ T.gf_exp[T.gf_log[i]] = i
                /\ gf_mul(m, T, i, T.inverse[i]) = 1
    /\ gf_mul(m, T, i, 0) = 0
    /\ gf_mul(m, T, 0, i) = 0
    /\ \A j \in 0 .. GF_SIZE(m) : gf_mul(m, T, i, j) = gf_mul_ref(m, i, j)

\* check_gf: one iteration of the outer loop; a failed assert aborts
CheckGf(t) ==
    /\ ~Aborted
    /\ At(t, "check_gf")
    /\ IF ~check_gf_row(GF_BITS, Tables, pc[t].i)
       THEN Goto(t, "aborted")
       ELSE IF pc[t].i < GF_SIZE(GF_BITS)
            THEN pc' = [pc EXCEPT ![t].i = @ + 1]
            ELSE Goto(t, "init_mul_table")
    /\ UNCHANGED <<buildvars, tabvars, fec_initialized, init_runs, codecvars, op>>

\* init_fec, line 1119
InitMulTable(t) ==
    /\ ~Aborted
    /\ At(t, "init_mul_table")
    /\ SetTables(init_mul_table(GF_BITS, Tables))
    /\ Goto(t, "init_done")
    /\ UNCHANGED <<buildvars, fec_initialized, init_runs, codecvars, op>>

\* init_fec has returned: pthread_once marks the flag done and fec_init
\* returns 1; without THREADSAFE line 1148 sets the flag and line 1150 returns
FecInitReturn(t) ==
    /\ ~Aborted
    /\ At(t, "init_done")
    /\ fec_initialized' = 1
    /\ Goto(t, "returned")
    /\ UNCHANGED <<buildvars, tabvars, init_runs, codecvars, op>>

FecInitStep(t) ==
    \/ FecInitCall(t)
    \/ GenerateGfClear(t)
    \/ GenerateGfFill(t)
    \/ InitMulTable(t)
    \/ FecInitReturn(t)

\* the tables a single-threaded first call of fec_init leaves
BuiltTables(m) == init_fec(m, ZeroTables(m))

-----------------------------------------------------------------------------
(* Table specification: one caller runs fec_init, then multiplies.          *)

\* after fec_init has returned, the caller multiplies the next field element
\* x by every field element
GfMulSweep ==
    LET x == IF op.name = "gf_mul" THEN op.x + 1 ELSE 0
    IN  /\ ~Aborted
        /\ At(1, "returned")
        /\ x <= GF_SIZE(GF_BITS)
        /\ op' = [name |-> "gf_mul", x |-> x,
                  row |-> [y \in 0 .. GF_SIZE(GF_BITS) |-> gf_mul(GF_BITS, Tables, x, y)]]
        /\ UNCHANGED <<buildvars, tabvars, fec_initialized, pc, init_runs, codecvars>>

InitGF == InitBuild(GFBitsRange, {FALSE}, BOOLEAN, 1)

NextGF ==
    \/ FecInitStep(1)
    \/ CheckGf(1)
    \/ GfMulSweep

SpecGF == InitGF /\ [][NextGF]_vars

\* C4: after initialisation gf_mul(x,y) equals the reference shift-and-reduce
\* product for every pair of field elements, and a zero operand gives zero.
C4_MulMatchesRef ==
    op.name = "gf_mul" =>
        \A y \in 0 .. GF_SIZE(GF_BITS) :
            /\ op.row[y] = gf_mul_ref(GF_BITS, op.x, y)
            /\ (op.x = 0 \/ y = 0) => op.row[y] = 0

C4_Witness ==
    /\ op.name = "gf_mul"
    /\ op.x = GF_SIZE(GF_BITS)
    /\ GF_BITS > 8
    /\ op.row[GF_SIZE(GF_BITS)] # 0

\* some caller is past generate_gf
Generated ==
    \/ fec_initialized = 1
    \/ \E t \in DOMAIN pc :
          pc[t].at \in {"check_gf", "init_mul_table", "init_done", "returned"}

\* C5: after generate_gf every nonzero x satisfies gf_exp[gf_log[x]] = x and
\* gf_mul(x, inverse[x]) = 1.
C5_ExpLogInverse ==
    Generated =>
        \A x \in 1 .. GF_SIZE(GF_BITS) :
            /\ gf_exp[gf_log[x]] = x
            /\ gf_mul(GF_BITS, Tables, x, inverse[x]) = 1

-----------------------------------------------------------------------------
(* Initialisation specification: NThreads callers race through fec_init.    *)

InitOnce == InitBuild(2 .. MaxBitsSmall, BOOLEAN, {FALSE}, NThreads)

NextOnce ==
    \/ \E t \in DOMAIN pc : FecInitCall(t)
    \/ \E t \in DOMAIN pc : GenerateGfClear(t)
    \/ \E t \in DOMAIN pc : GenerateGfFill(t)
    \/ \E t \in DOMAIN pc : InitMulTable(t)
    \/ \E t \in DOMAIN pc : FecInitReturn(t)

SpecOnce == InitOnce /\ [][NextOnce]_vars

OneShot ==
    /\ init_runs <= 1
    /\ \A t \in DOMAIN pc :
          pc[t].at = "returned" =>
              /\ init_runs = 1
              /\ Tables = BuiltTables(GF_BITS)

-----------------------------------------------------------------------------
(* Codec specification: one caller creates a codec, loads a block of source *)
(* symbols, and encodes or decodes.                                         *)

\* largest k and n the caller encodes and decodes with, largest symbol size
\* in bytes, number of data patterns less one, largest field of the codec
MaxK == 3
MaxN == 5
MaxSz == 2
MaxSeed == 1
MaxBitsCodec == 3

\* the values the caller passes to fec_new as k and n
NewRange == -1 .. MaxN + 1

\* element j of source symbol i, and element j of a buffer not yet written
Pattern(seed, i, j, q) == (1 + seed + i * (2 * j + 1) + 3 * j) % q
Junk(seed, j, q) == (seed + 3 + 2 * j) % q

\* exit(1) has ended the process
Exited == op.name = "fec_new" /\ op.ret = "exit"
Loaded == data # << >>

\* fec_new(k, n): fec_init (line 1193), then the guard and the construction;
\* tmp_m is the temp matrix as line 1217 leaves it
FecNew ==
    /\ ~Exited
    /\ codec.null
    /\ \E T \in {IF fec_initialized = 0 THEN init_fec(GF_BITS, Tables) ELSE Tables} :
           /\ SetTables(T)
           /\ \E k, n \in NewRange :
                 \E r \in fec_new(GF_BITS, T, k, n) :
                    /\ codec' = r.code
                    /\ op' = [name |-> "fec_new", k |-> k, n |-> n, ret |-> r.ret,
                              allocs |-> r.allocs,
                              tmp_m |-> IF r.ret = "desc" /\ k >= 1
                                        THEN fec_new_tmp_m(GF_BITS, T, k, n)
                                        ELSE << >>]
    /\ fec_initialized' = 1
    /\ init_runs' = IF fec_initialized = 0 THEN init_runs + 1 ELSE init_runs
    /\ UNCHANGED <<buildvars, pc, data, outbuf, pkts, idxs, heap>>

\* the caller fills k source symbols of sz bytes and owns an output buffer
\* of sz bytes whose content is whatever the allocation held
Load ==
    /\ ~codec.null
    /\ ~Loaded
    /\ codec.k >= 1
    /\ codec.k <= MaxK
    /\ codec.n <= MaxN
    /\ \E seed \in 0 .. MaxSeed, sz \in 1 .. MaxSz :
          /\ data' = [sz |-> sz, seed |-> seed,
                      sym |-> [i \in 0 .. codec.k - 1 |->
                                 [j \in 0 .. sz - 1 |->
                                     Pattern(seed, i, j, GF_SIZE(GF_BITS) + 1)]]]
          /\ outbuf' = [j \in 0 .. sz - 1 |-> Junk(seed, j, GF_SIZE(GF_BITS) + 1)]
    /\ op' = [name |-> "load"]
    /\ UNCHANGED <<buildvars, tabvars, fec_initialized, pc, init_runs, codec,
                   pkts, idxs, heap>>

\* fec_encode(code, src, fec, index, sz) into the caller's output buffer,
\* whose previous content stays where the call does not write
Encode ==
    /\ Loaded
    /\ op.name \in {"load", "fec_encode"}
    /\ \E ix \in 0 .. codec.n + 1 :
        \E r \in {fec_encode(GF_BITS, Tables, codec, data.sym, outbuf, ix, data.sz)} :
           /\ outbuf' = r.fec
           /\ op' = [name |-> "fec_encode", index |-> ix, fec_in |-> outbuf,
                     ret |-> "void", stderr |-> r.stderr]
    /\ UNCHANGED <<buildvars, tabvars, fec_initialized, pc, init_runs, codec,
                   data, pkts, idxs, heap>>

\* the symbol the caller holds for index ix: what fec_encode produced, or a
\* buffer of its own when fec_encode produces none for ix
Received(ix) ==
    LET junk == [j \in 0 .. data.sz - 1 |->
                    Junk(data.seed + 1, j, GF_SIZE(GF_BITS) + 1)]
    IN  IF ix >= 0 /\ ix < codec.n
        THEN fec_encode(GF_BITS, Tables, codec, data.sym, junk, ix, data.sz).fec
        ELSE junk

\* fec_decode(code, pkt, index, sz): packet i is buffer i and carries index
\* ix[i]; before is the word that precedes index[0] in the caller's memory,
\* which the call reaches only when an index is negative
Decode ==
    /\ Loaded
    /\ op.name = "load"
    /\ \E ix \in [0 .. codec.k - 1 -> -1 .. codec.n + 1] :
       \E before \in IF \E i \in DOMAIN ix : ix[i] < 0
                     THEN {-1, 0, codec.n}
                     ELSE {0} :
       \E pkt_in   \in {[i \in -1 .. codec.k - 1 |-> i]},
          index_in \in {[i \in -1 .. codec.k - 1 |-> IF i = -1 THEN before ELSE ix[i]]},
          mem_in   \in {[b \in -1 .. codec.k - 1 |->
                           IF b = WILD THEN Received(-1) ELSE Received(ix[b])]} :
         \E r \in {fec_decode(GF_BITS, Tables, codec, pkt_in, index_in, mem_in, data.sz)} :
           /\ pkts' = r.pkt
           /\ idxs' = r.index
           /\ heap' = r.mem
           /\ op' = [name |-> "fec_decode", pkt_in |-> pkt_in, index_in |-> index_in,
                     mem_in |-> mem_in, code_in |-> codec, ret |-> r.ret,
                     stray |-> r.stray, allocs |-> r.allocs,
                     access |-> r.access]
    /\ UNCHANGED <<buildvars, tabvars, fec_initialized, pc, init_runs, codec,
                   data, outbuf>>

InitCodec == InitBuild(2 .. MaxBitsCodec, {FALSE}, {FALSE}, 1)

NextCodec ==
    \/ FecNew
    \/ Load
    \/ Encode
    \/ Decode

SpecCodec == InitCodec /\ [][NextCodec]_vars

\* ---- what the caller passed to the last fec_decode and got back

Last(name) == op.name = name
IndexIn(i) == op.index_in[i]
Distinct == \A i, j \in 0 .. codec.k - 1 : i # j => IndexIn(i) # IndexIn(j)
InRange == \A i \in 0 .. codec.k - 1 : IndexIn(i) >= 0 /\ IndexIn(i) < codec.n
Recovered == \A i \in 0 .. codec.k - 1 : heap[pkts[i]] = data.sym[i]

\* C1: MDS round trip.  For every k distinct indices in [0,n), in any order,
\* fec_decode of the symbols fec_encode produced for them returns 0 and leaves
\* pkt[i] holding source symbol i for every i in [0,k).
C1_RoundTrip ==
    (Last("fec_decode") /\ Distinct /\ InRange) => (op.ret = 0 /\ Recovered)

C1_Witness ==
    /\ Last("fec_decode") /\ Distinct /\ InRange
    /\ codec.k >= 3
    /\ data.sz >= 2
    /\ Cardinality({i \in 0 .. codec.k - 1 : IndexIn(i) >= codec.k}) >= 2
    /\ IndexIn(0) > IndexIn(1)
    /\ op.ret = 0
    /\ Recovered
    /\ op.mem_in # heap

\* C2: the code is systematic.  Rows 0 .. k-1 of the generator matrix of every
\* codec fec_new returned are the unit vectors, and fec_encode with an index
\* i < k writes an exact copy of src[i] to the output.
C2_Systematic ==
    /\ ~codec.null =>
          \A i, j \in 0 .. codec.k - 1 :
              codec.enc_matrix[i * codec.k + j] = (IF i = j THEN 1 ELSE 0)
    /\ (Last("fec_encode") /\ op.index < codec.k) => outbuf = data.sym[op.index]

C2_Witness ==
    /\ Last("fec_encode")
    /\ codec.k >= 2
    /\ op.index >= 1 /\ op.index < codec.k
    /\ outbuf # op.fec_in
    /\ outbuf = data.sym[op.index]

\* XOR over i .. k-1 of mul_ref(G[index][i], src[i][j])
RECURSIVE RefParity(_, _, _)
RefParity(ix, j, i) ==
    IF i >= codec.k THEN 0
    ELSE Xor(gf_mul_ref(GF_BITS, codec.enc_matrix[ix * codec.k + i], data.sym[i][j]),
             RefParity(ix, j, i + 1))

\* C3: for every index in [k,n) and every element position j < sz, the symbol
\* fec_encode wrote has out[j] = XOR over i < k of mul_ref(G[index][i],
\* src[i][j]), whatever the output buffer held before.
C3_ParityIsRefSum ==
    (Last("fec_encode") /\ op.index >= codec.k /\ op.index < codec.n) =>
        \A j \in 0 .. data.sz - 1 : outbuf[j] = RefParity(op.index, j, 0)

C3_Witness ==
    /\ Last("fec_encode")
    /\ op.index >= codec.k /\ op.index < codec.n
    /\ codec.k >= 2
    /\ \A j \in 0 .. data.sz - 1 : op.fec_in[j] # 0
    /\ outbuf # op.fec_in
    /\ \E j \in 0 .. data.sz - 1 : outbuf[j] # 0

\* the pairs (k, n) for which the interface promises a descriptor
ValidParams(k, n) == 1 <= k /\ k <= n /\ n <= GF_SIZE(GF_BITS) + 1

\* C6: fec_new(k,n) returns a descriptor if and only if 1 <= k <= n <= 2^m,
\* and for every other pair returns null without building a descriptor.
C6_NewIffValid ==
    Last("fec_new") =>
        /\ op.ret = "desc" <=> ValidParams(op.k, op.n)
        /\ ~ValidParams(op.k, op.n) => (op.ret = "NULL" /\ codec.null)

\* the decode matrix of the call is singular: shuffle accepted the indices,
\* every index is below n, and invert_mat failed
Singular ==
    LET sh == shuffle(op.pkt_in, op.index_in, codec.k)
        rows == build_decode_rows(codec, sh.index)
    IN  /\ sh.ret = 0
        /\ ~rows.invalid
        /\ invert_mat(GF_BITS, Tables, rows.matrix, codec.k).error # 0

\* C7: fec_decode returns nonzero whenever the index array holds a duplicate
\* or an index outside [0,n), or the decode matrix is singular, and returns 0
\* whenever the k indices are distinct and all in [0,n).
C7_DecodeStatus ==
    Last("fec_decode") =>
        /\ (~Distinct \/ ~InRange \/ Singular) => op.ret # 0
        /\ (Distinct /\ InRange) => op.ret = 0

\* the arrays of the caller hold the same (pointer, index) pairs as before
\* the call, each pair once
SamePairs ==
    \E f \in [0 .. codec.k - 1 -> 0 .. codec.k - 1] :
        /\ \A i, j \in 0 .. codec.k - 1 : i # j => f[i] # f[j]
        /\ \A i \in 0 .. codec.k - 1 :
              /\ pkts[i] = op.pkt_in[f[i]]
              /\ idxs[i] = op.index_in[f[i]]

SameArrays ==
    \A i \in 0 .. codec.k - 1 : pkts[i] = op.pkt_in[i] /\ idxs[i] = op.index_in[i]

\* C8 as stated: whenever fec_decode returns nonzero the pkt array and the
\* index array are in their original order, every symbol buffer holds what it
\* held, and the codec is unchanged.
C8_FailureLeavesInputs ==
    (Last("fec_decode") /\ op.ret # 0) =>
        /\ SameArrays
        /\ heap = op.mem_in
        /\ codec = op.code_in

\* C8 amended: whenever fec_decode returns nonzero every symbol buffer holds
\* what it held and the codec is unchanged; the pkt array and the index array
\* may have been reordered, and when no index is negative they hold the same
\* (pointer, index) pairs as before the call.
C8_FailureKeepsBuffers ==
    (Last("fec_decode") /\ op.ret # 0) =>
        /\ heap = op.mem_in
        /\ codec = op.code_in
        /\ (\A i \in 0 .. codec.k - 1 : IndexIn(i) >= 0) => SamePairs

C8_Witness ==
    /\ Last("fec_decode")
    /\ op.ret # 0
    /\ \A i \in 0 .. codec.k - 1 : IndexIn(i) >= 0
    /\ ~SameArrays
    /\ SamePairs
    /\ heap = op.mem_in

\* what the caller of the last fec_encode holds: the value returned and the
\* output buffer
EncodeResult == <<op.ret, outbuf>>

\* C9: fec_encode called with index >= n surfaces a failure to its caller:
\* what the caller obtains differs from what every successful encode made from
\* the same buffer would have given it.
C9_EncodeFailureSurfaced ==
    (Last("fec_encode") /\ op.index >= codec.n) =>
        \A ix \in 0 .. codec.n - 1 :
            EncodeResult #
                <<"void", fec_encode(GF_BITS, Tables, codec, data.sym, op.fec_in,
                                     ix, data.sz).fec>>

-----------------------------------------------------------------------------
(* Lifetime specification: one caller calls fec_init, fec_new, fec_encode,  *)
(* fec_decode and fec_free in any order a sequential program can.           *)

\* the caller is not inside fec_init
Idle == pc[1].at \in {"idle", "returned"}

\* fec_free(p) with the descriptor the caller holds, or with NULL.  The magic
\* of a descriptor fec_new returned matches (lines 1204 and 1171), so the test
\* of line 1170 fails only for NULL.  The caller drops its block with the
\* descriptor.
FecFree ==
    /\ ~Exited
    /\ op.name # "fec_free"
    /\ IF codec.null
       THEN /\ op' = [name |-> "fec_free", freed |-> FALSE]
            /\ UNCHANGED codecvars
       ELSE /\ codec' = NULL
            /\ data' = << >>
            /\ outbuf' = << >>
            /\ pkts' = << >>
            /\ idxs' = << >>
            /\ heap' = << >>
            /\ op' = [name |-> "fec_free", freed |-> TRUE]
    /\ UNCHANGED <<buildvars, tabvars, fec_initialized, pc, init_runs>>

InitLife == InitBuild(2 .. MaxBitsCodec, BOOLEAN, {FALSE}, 1)

NextLife ==
    \/ FecInitStep(1)
    \/ Idle /\ FecNew
    \/ Idle /\ Load
    \/ Idle /\ Encode
    \/ Idle /\ Decode
    \/ Idle /\ FecFree

SpecLife == InitLife /\ [][NextLife]_vars

\* C11: once the first fec_init has returned, no later call of fec_init,
\* fec_new, fec_encode, fec_decode or fec_free changes any entry of gf_exp,
\* gf_log, inverse or gf_mul_table.
C11_TablesImmutable == [][fec_initialized = 1 => UNCHANGED tabvars]_vars

C11_Witness ==
    /\ op.name = "fec_free"
    /\ op.freed
    /\ pc[1].at = "returned"
    /\ init_runs = 1
    /\ Tables = BuiltTables(GF_BITS)

-----------------------------------------------------------------------------
(* The row-scaled-accumulate variants of matmul (CODE == SSE_INTRINSICS and *)
(* CODE == VECTOR_EXTENSIONS, GF_BITS > 8).                                 *)

\* elements of type gf in a 16-byte vector (v8gf, __m128i of 16-bit lanes)
LANES == 8

\* nibble t of x: (x >> 4t) & 0xF
Nibble(x, t) == (x \div Pow2(4 * t)) % 16

\* one lookup of fast_gf_exp[c]: init_mul_table stores gf_mul(c, j << 4t) as a
\* low byte (table 2t) and a high byte (table 2t+1); the shuffles fetch both
\* and the mask and the shift put them back together
fast_gf_exp(m, T, c, t, j) ==
    LET v == gf_mul(m, T, c, j * Pow2(4 * t))
    IN  (v % 256) + 256 * ((v \div 256) % 256)

\* the product the vector loop accumulates for one lane: the four nibbles of
\* the element of b, each through its pair of tables
simd_mul(m, T, c, x) ==
    Xor(Xor(fast_gf_exp(m, T, c, 0, Nibble(x, 0)), fast_gf_exp(m, T, c, 1, Nibble(x, 1))),
        Xor(fast_gf_exp(m, T, c, 2, Nibble(x, 2)), fast_gf_exp(m, T, c, 3, Nibble(x, 3))))

\* the three column loops for one nonzero *pa: scalar products until pb is
\* 16-byte aligned, vectors of LANES columns, scalar products for the rest.
\* pb is the position in b the loops start from, al the position of b[0] in
\* its 16-byte line, crow the row of c.
matmul_simd_pivot(m, T, pa, b, pb, al, crow, cols) ==
    LET gap    == (LANES - ((al + pb) % LANES)) % LANES
        head   == IF gap < cols THEN gap ELSE cols
        blocks == (cols - head) \div LANES
    IN  [col \in 0 .. cols - 1 |->
            IF col >= head /\ col < head + blocks * LANES
            THEN Xor(crow[col], simd_mul(m, T, pa, b[pb + col]))
            ELSE Xor(crow[col], gf_mul(m, T, pa, b[pb + col]))]

\* the loop over i for one row of a: pb starts at b and moves on by cols
\* inside the test *pa != 0, where the column loops advance it
RECURSIVE matmul_simd_row(_, _, _, _, _, _, _, _, _, _, _)
matmul_simd_row(m, T, a, pa, b, pb, al, crow, cols, k, i) ==
    IF i >= k THEN crow
    ELSE IF a[pa] # 0
    THEN Eval(matmul_simd_pivot(m, T, a[pa], b, pb, al, crow, cols), LAMBDA crow1 :
              matmul_simd_row(m, T, a, pa + 1, b, pb + cols, al, crow1, cols, k, i + 1))
    ELSE matmul_simd_row(m, T, a, pa + 1, b, pb, al, crow, cols, k, i + 1)

\* matmul_sse_intrin(a, b, c, n, k, cols): c is cleared, then every row
matmul_sse_intrin(m, T, a, b, al, c, n, k, cols) ==
    Eval([row \in 0 .. n - 1 |->
             matmul_simd_row(m, T, a, row * k, b, 0, al,
                             [col \in 0 .. cols - 1 |-> 0], cols, k, 0)], LAMBDA rows :
         [x \in DOMAIN c |->
             IF x < n * cols THEN rows[x \div cols][x % cols] ELSE c[x]])

\* matmul_vector_ext(a, b, c, n, k, cols): the same loops with vector
\* extensions in place of the intrinsics
matmul_vector_ext(m, T, a, b, al, c, n, k, cols) ==
    Eval([row \in 0 .. n - 1 |->
             matmul_simd_row(m, T, a, row * k, b, 0, al,
                             [col \in 0 .. cols - 1 |-> 0], cols, k, 0)], LAMBDA rows :
         [x \in DOMAIN c |->
             IF x < n * cols THEN rows[x \div cols][x % cols] ELSE c[x]])

-----------------------------------------------------------------------------
(* Linear algebra specification: after fec_init one caller applies the      *)
(* field and matrix routines to inputs of its own.                          *)

\* largest number of rows of a and of columns of b handed to matmul, and the
\* number of matrices a less one
MaxRows == 2
MaxCols == 9
MaxASeed == 26

\* digit x of seed written in base q
Digit(seed, x, q) == (seed \div (q ^ x)) % q

\* fec_init has returned to the caller, which has called no routine yet
Ready == ~Aborted /\ At(1, "returned") /\ op.name = "none"

\* matmul(a, b, c, n, k, cols) by each of the three implementations on the
\* same a (entries 0, 1, 2) and b, c holding what the allocation held; al is
\* where b lies in its 16-byte line.  The variants exist for GF_BITS > 8
\* (line 81).
Matmul ==
    /\ Ready
    /\ GF_BITS > TableMaxBits
    /\ \E n \in 1 .. MaxRows, k \in 1 .. MaxK, cols \in 1 .. MaxCols,
          al \in 0 .. LANES - 1, seed \in 0 .. MaxASeed :
         \E a \in {[x \in 0 .. n * k - 1 |-> Digit(seed + 5 * (x \div k), x % k, 3)]},
            b \in {[x \in 0 .. k * cols - 1 |-> (37 * x + 5) % (GF_SIZE(GF_BITS) + 1)]},
            c \in {[x \in 0 .. n * cols - 1 |-> Junk(seed, x, GF_SIZE(GF_BITS) + 1)]} :
           \E r0 \in {matmul_original(GF_BITS, Tables, a, 0, b, 0, c, 0, n, k, cols)},
              r1 \in {matmul_sse_intrin(GF_BITS, Tables, a, b, al, c, n, k, cols)},
              r2 \in {matmul_vector_ext(GF_BITS, Tables, a, b, al, c, n, k, cols)} :
             op' = [name |-> "matmul", n |-> n, k |-> k, cols |-> cols, a |-> a,
                    b |-> b, original |-> r0, sse_intrin |-> r1, vector_ext |-> r2]
    /\ UNCHANGED <<buildvars, tabvars, fec_initialized, pc, init_runs, codecvars>>

\* largest field element used as an entry of a matrix to invert
MaxElem == 5

\* the entries the caller draws from
Elems == 0 .. (IF GF_SIZE(GF_BITS) < MaxElem THEN GF_SIZE(GF_BITS) ELSE MaxElem)

\* x to the power c by the reference multiplication, x^0 = 1
RECURSIVE RefPow(_, _, _)
RefPow(m, x, c) == IF c = 0 THEN 1 ELSE gf_mul_ref(m, x, RefPow(m, x, c - 1))

\* the k*k product of a and b by the reference multiplication
RefProduct(m, a, b, k) ==
    [x \in 0 .. k * k - 1 |-> check_matmul_acc(m, a, 0, b, x \div k, x % k, k, k, 0)]

Identity(k) == [x \in 0 .. k * k - 1 |-> IF x \div k = x % k THEN 1 ELSE 0]

\* invert_vdm(src, k) on the Vandermonde matrix src[r][c] = p[r]^c of k
\* pairwise distinct field elements p
InvertVdm ==
    /\ Ready
    /\ \E k \in 1 .. MaxK :
         \E p \in {f \in [0 .. k - 1 -> Elems] :
                     \A i, j \in 0 .. k - 1 : i # j => f[i] # f[j]} :
           \E src \in {[x \in 0 .. k * k - 1 |-> RefPow(GF_BITS, p[x \div k], x % k)]} :
             \E r \in {invert_vdm(GF_BITS, Tables, src, k)} :
               op' = [name |-> "invert_vdm", k |-> k, p |-> p, src_in |-> src,
                      src |-> r, ret |-> 0, allocs |-> invert_vdm_allocs(k)]
    /\ UNCHANGED <<buildvars, tabvars, fec_initialized, pc, init_runs, codecvars>>

\* the matrices handed to invert_mat: the digits of 0 .. MaxMatSeed in every
\* base 2 .. MaxBase, spread over the cells
MaxMatSeed == 511
MaxBase == 4

\* invert_mat(src, k) on a k*k matrix of the caller, singular or not
InvertMat ==
    /\ Ready
    /\ \E k \in 1 .. MaxK, q \in 2 .. MaxBase, seed \in 0 .. MaxMatSeed :
         \E src \in {[x \in 0 .. k * k - 1 |-> Digit(seed, (x * (k - 1)) % (k * k), q)]} :
           \E r \in {invert_mat(GF_BITS, Tables, src, k)} :
             op' = [name |-> "invert_mat", k |-> k, src_in |-> src,
                    src |-> r.src, ret |-> r.error,
                    allocs |-> invert_mat_allocs(r.error)]
    /\ UNCHANGED <<buildvars, tabvars, fec_initialized, pc, init_runs, codecvars>>

\* shuffle(pkt, index, k) on arrays of the caller: packet i is buffer i and
\* carries index ix[i]; before is the word that precedes index[0], which the
\* call reaches only when an index is negative; position k is the word that
\* follows each array
Shuffle ==
    /\ Ready
    /\ \E k \in 1 .. MaxK :
         \E ix \in [0 .. k - 1 -> -1 .. MaxN] :
           \E before \in IF \E i \in DOMAIN ix : ix[i] < 0
                         THEN {-1, 0, MaxN}
                         ELSE {0} :
             \E pkt_in   \in {[i \in -1 .. k |-> i]},
                index_in \in {[i \in -1 .. k |->
                                 IF i = -1 THEN before ELSE IF i = k THEN 0 ELSE ix[i]]} :
               \E r \in {shuffle(pkt_in, index_in, k)} :
                 op' = [name |-> "shuffle", k |-> k, pkt_in |-> pkt_in,
                        index_in |-> index_in, pkt |-> r.pkt, index |-> r.index,
                        ret |-> r.ret, stray |-> r.stray, steps |-> r.steps,
                        swaps |-> r.swaps, pos |-> r.pos]
    /\ UNCHANGED <<buildvars, tabvars, fec_initialized, pc, init_runs, codecvars>>

\* largest sz of an addmul call: one whole block of UNROLL and two more
MaxAddSz == 18
\* number of different fillings of dst and src
MaxFill == 2

\* addmul(dst, src, c, sz) on a dst that lies inside a longer array, one
\* element before it and the rest after it, so that a store outside
\* dst[0 .. sz) shows; src has exactly sz elements
Addmul ==
    /\ Ready
    /\ \E sz \in 0 .. MaxAddSz, c \in Elems, fill \in 0 .. MaxFill :
         \E dst \in {[i \in 0 .. MaxAddSz + 1 |->
                         (5 * i + fill) % (GF_SIZE(GF_BITS) + 1)]},
            src \in {[i \in 0 .. sz - 1 |->
                         (3 * i + 2 * fill) % (GF_SIZE(GF_BITS) + 1)]} :
           \E r \in {addmul(GF_BITS, Tables, dst, 1, src, 0, c, sz)} :
             op' = [name |-> "addmul", sz |-> sz, c |-> c, src |-> src,
                    dst_in |-> dst, dst |-> r]
    /\ UNCHANGED <<buildvars, tabvars, fec_initialized, pc, init_runs, codecvars>>

InitAlg == InitBuild(GFBitsRange, {FALSE}, {FALSE}, 1)

NextAlg ==
    \/ FecInitStep(1)
    \/ Matmul
    \/ InvertVdm
    \/ InvertMat
    \/ Shuffle
    \/ Addmul

SpecAlg == InitAlg /\ [][NextAlg]_vars

\* C12: for every A and B, entries of A allowed to be zero, matmul_sse_intrin
\* and matmul_vector_ext produce exactly the C that matmul_original produces.
C12_MatmulVariantsAgree ==
    Last("matmul") =>
        /\ op.sse_intrin = op.original
        /\ op.vector_ext = op.original

-----------------------------------------------------------------------------
(* The generator matrix against the reference product.                      *)

\* the temp matrix of fec_new as it stands after invert_vdm (line 1238)
TempInverted ==
    invert_vdm(GF_BITS, Tables,
               fec_new_tmp_m(GF_BITS, Tables, codec.k, codec.n), codec.k)

\* C13: after fec_new(k,n) the lower (n-k) x k block of the generator is the
\* product of rows k .. n-1 of the temp matrix with its inverted upper block:
\* C[i][j] = XOR over l of mul_ref(A[i][l], B[l][j]) for every i and j.
C13_LowerBlockIsProduct ==
    (Last("fec_new") /\ op.ret = "desc" /\ codec.k >= 1) =>
        \E tmp_m \in {TempInverted} :
            \A i \in 0 .. codec.n - codec.k - 1 : \A j \in 0 .. codec.k - 1 :
                codec.enc_matrix[(codec.k + i) * codec.k + j] =
                    check_matmul_acc(GF_BITS, tmp_m, codec.k * codec.k, tmp_m,
                                     i, j, codec.k, codec.k, 0)

C13_Witness ==
    /\ Last("fec_new") /\ op.ret = "desc"
    /\ codec.k >= 3
    /\ codec.n - codec.k >= 2
    /\ \E x \in codec.k * codec.k .. codec.n * codec.k - 1 : codec.enc_matrix[x] > 1

\* C14: for every k >= 1 and pairwise distinct p_0 .. p_{k-1} (p_0 need not be
\* 0), invert_vdm replaces the matrix V[r][c] = p_r^c by its inverse: V times
\* the result is the identity.
C14_InvertVdm ==
    Last("invert_vdm") =>
        RefProduct(GF_BITS, op.src_in, op.src, op.k) = Identity(op.k)

\* the determinant of the k*k matrix a by expansion along the columns c ..
\* k-1 over the rows R, by the reference multiplication; DetSum adds the
\* terms of the rows S of R
RECURSIVE Det(_, _, _, _, _), DetSum(_, _, _, _, _, _)
Det(m, a, k, c, R) ==
    IF c >= k THEN 1 ELSE DetSum(m, a, k, c, R, R)

DetSum(m, a, k, c, R, S) ==
    IF S = {} THEN 0
    ELSE LET r == CHOOSE x \in S : TRUE
         IN  Xor(gf_mul_ref(m, a[r * k + c], Det(m, a, k, c + 1, R \ {r})),
                 DetSum(m, a, k, c, R, S \ {r}))

Nonsingular(m, a, k) == Det(m, a, k, 0, 0 .. k - 1) # 0

\* C15: invert_mat on a nonsingular k*k matrix returns 0 and leaves the
\* inverse in its place (the original times the result is the identity), also
\* when a pivot row is a unit vector and the elimination is skipped; on a
\* singular matrix it returns nonzero.
C15_InvertMat ==
    Last("invert_mat") =>
        IF Nonsingular(GF_BITS, op.src_in, op.k)
        THEN /\ op.ret = 0
             /\ RefProduct(GF_BITS, op.src_in, op.src, op.k) = Identity(op.k)
        ELSE op.ret # 0

C15_Witness ==
    /\ Last("invert_mat")
    /\ op.k >= 3
    /\ \A j \in 0 .. op.k - 1 : op.src_in[j] = (IF j = 0 THEN 1 ELSE 0)
    /\ op.src_in[op.k + 1] = 0
    /\ \E x \in DOMAIN op.src_in : op.src_in[x] > 1
    /\ op.ret = 0
    /\ op.src # op.src_in
    /\ RefProduct(GF_BITS, op.src_in, op.src, op.k) = Identity(op.k)

\* the temp matrix has row 0 = (1,0,...,0)
TempRow0 == \A c \in 0 .. op.k - 1 : op.tmp_m[c] = (IF c = 0 THEN 1 ELSE 0)

\* C16 as stated: in fec_new the temp matrix has row 0 equal to (1,0,...,0)
\* and T[r][c] = exp[(r*c) mod (2^m - 1)] for every 1 <= r < n and c in [0,k).
C16_TempMatrixRowTimesCol ==
    (Last("fec_new") /\ op.ret = "desc" /\ op.k >= 1) =>
        /\ TempRow0
        /\ \A r \in 1 .. op.n - 1 : \A c \in 0 .. op.k - 1 :
              op.tmp_m[r * op.k + c] = gf_exp[(r * c) % GF_SIZE(GF_BITS)]

\* C16 amended: row 0 is (1,0,...,0) and T[r][c] = exp[((r-1)*c) mod (2^m - 1)]
\* for every 1 <= r < n and c in [0,k): row r holds the powers of alpha^(r-1).
C16_TempMatrixPowers ==
    (Last("fec_new") /\ op.ret = "desc" /\ op.k >= 1) =>
        /\ TempRow0
        /\ \A r \in 1 .. op.n - 1 : \A c \in 0 .. op.k - 1 :
              op.tmp_m[r * op.k + c] = gf_exp[((r - 1) * c) % GF_SIZE(GF_BITS)]

C16_Witness ==
    /\ Last("fec_new") /\ op.ret = "desc"
    /\ op.k >= 3
    /\ op.n >= 5
    /\ (op.n - 2) * (op.k - 1) >= GF_SIZE(GF_BITS)
    /\ op.tmp_m[(op.n - 1) * op.k + op.k - 1] =
           gf_exp[((op.n - 2) * (op.k - 1)) % GF_SIZE(GF_BITS)]
    /\ op.tmp_m[2 * op.k + 1] # op.tmp_m[op.k + 1]

\* ---- what the caller passed to the last shuffle and got back

\* no index of the call is negative (every index lies in [0,n) for some n)
ShuffleInRange == \A i \in 0 .. op.k - 1 : op.index_in[i] >= 0

\* the index values that occur at two positions of the array
Duplicated ==
    {op.index_in[i] : i \in {i \in 0 .. op.k - 1 :
                                \E j \in 0 .. op.k - 1 : j # i /\ op.index_in[j] = op.index_in[i]}}

\* C17 as stated: for every index array with entries in [0,n) in which some
\* index value occurs twice, whether that value is < k or >= k, shuffle
\* returns nonzero.
C17_ShuffleRejectsDuplicates ==
    (Last("shuffle") /\ ShuffleInRange /\ Duplicated # {}) => op.ret # 0

\* C17 amended: for every index array with entries in [0,n), shuffle returns
\* nonzero if and only if some index value below k occurs twice; a value >= k
\* that occurs twice is not detected by shuffle.
C17_ShuffleRejectsDuplicatesBelowK ==
    (Last("shuffle") /\ ShuffleInRange) =>
        (op.ret # 0 <=> \E v \in Duplicated : v < op.k)

C17_Witness ==
    /\ Last("shuffle")
    /\ ShuffleInRange
    /\ op.k >= 3
    /\ \E v \in Duplicated : v < op.k
    /\ op.index_in[0] # 0
    /\ op.index # op.index_in
    /\ op.ret # 0

\* the pairs (pkt[i], index[i]) after the call are the pairs before the call,
\* each once
ShufflePermutes ==
    \E f \in [0 .. op.k - 1 -> 0 .. op.k - 1] :
        /\ \A i, j \in 0 .. op.k - 1 : i # j => f[i] # f[j]
        /\ \A i \in 0 .. op.k - 1 :
              /\ op.pkt[i] = op.pkt_in[f[i]]
              /\ op.index[i] = op.index_in[f[i]]

\* C18: when shuffle returns 0, every position i with index[i] < k has
\* index[i] = i, and the pairs (pkt[i], index[i]) are a permutation of the
\* input pairs.
C18_ShuffleSorts ==
    (Last("shuffle") /\ op.ret = 0) =>
        /\ \A i \in 0 .. op.k - 1 : op.index[i] < op.k => op.index[i] = i
        /\ ShufflePermutes

\* the same restricted to calls in which no index is negative
ShuffleSortsInRange ==
    (Last("shuffle") /\ op.ret = 0 /\ ShuffleInRange) =>
        /\ \A i \in 0 .. op.k - 1 : op.index[i] < op.k => op.index[i] = i
        /\ ShufflePermutes


\* C19: addmul(dst, src, c, sz) leaves dst[i] = old dst[i] XOR gf_mul(c, src[i])
\* for every i in [0, sz), for every sz from 0 on (multiples of UNROLL or
\* not), stores nothing outside dst[0 .. sz), and leaves dst as it was when
\* c = 0
C19_Addmul ==
    Last("addmul") =>
        /\ DOMAIN op.dst = DOMAIN op.dst_in
        /\ \A j \in DOMAIN op.dst :
              IF j >= 1 /\ j < 1 + op.sz
              THEN op.dst[j] = Xor(op.dst_in[j],
                                   gf_mul(GF_BITS, Tables, op.c, op.src[j - 1]))
              ELSE op.dst[j] = op.dst_in[j]
        /\ op.c = 0 => op.dst = op.dst_in

\* a call with a whole block and final components, a nonzero c, and an
\* element changed by it in the last position
C19_Witness ==
    /\ Last("addmul")
    /\ op.sz > UNROLL
    /\ op.sz % UNROLL # 0
    /\ op.c > 1
    /\ op.dst[op.sz] # op.dst_in[op.sz]
    /\ op.dst[1] # op.dst_in[1]


\* the buffers allocated and not released by the events first .. last of tr
Live(tr, first, last) ==
    {[f |-> tr[a].f, v |-> tr[a].v, i |-> tr[a].i] : a \in
        {a \in first .. last :
            /\ tr[a].ev = "malloc"
            /\ ~\E b \in a + 1 .. last :
                   /\ tr[b].ev = "free"
                   /\ tr[b].f = tr[a].f /\ tr[b].v = tr[a].v /\ tr[b].i = tr[a].i}}

\* the event at which the function returning at event r was entered
EnteredAt(tr, r) ==
    CHOOSE a \in 1 .. r : tr[a].ev = "call" /\ tr[a].f = tr[r].f

\* what a return hands to its caller: the descriptor and its matrix from a
\* successful fec_new, the decode matrix from a successful
\* build_decode_matrix (fec_decode is its only caller), nothing otherwise
Handed(e) ==
    IF e.f = "fec_new" /\ e.v = "desc"
    THEN {[f |-> "fec_new", v |-> "retval", i |-> 0],
          [f |-> "fec_new", v |-> "enc_matrix", i |-> 0]}
    ELSE IF e.f = "build_decode_matrix" /\ e.v = "matrix"
    THEN {[f |-> "build_decode_matrix", v |-> "matrix", i |-> 0]}
    ELSE {}

HasAllocs ==
    op.name \in {"fec_new", "fec_decode", "invert_mat", "invert_vdm"}

\* C20: no scratch leaks.  At every return of invert_mat, invert_vdm,
\* build_decode_matrix, fec_decode and fec_new, on the successful path and
\* on every failing one, every buffer allocated since the function was
\* entered has been released, except the result the function hands over:
\* the descriptor and generator matrix of a successful fec_new, and inside
\* fec_decode the decode matrix that build_decode_matrix returns, which
\* fec_decode releases before it returns.
C20_NoScratchLeaks ==
    HasAllocs =>
        \A r \in DOMAIN op.allocs :
            op.allocs[r].ev = "return" =>
                Live(op.allocs, EnteredAt(op.allocs, r), r) = Handed(op.allocs[r])

\* fec_decode returned 1 because invert_mat found the decode matrix
\* singular: the matrix and the five work arrays were allocated on the way
C20_Witness ==
    /\ Last("fec_decode")
    /\ op.ret = 1
    /\ \E r \in DOMAIN op.allocs :
          /\ op.allocs[r].ev = "return"
          /\ op.allocs[r].f = "invert_mat"
          /\ op.allocs[r].v = "1"
    /\ \E a \in DOMAIN op.allocs :
          op.allocs[a].ev = "malloc" /\ op.allocs[a].v = "matrix"


\* C21: within fec_new, for every 1 <= k <= 2^m, the upper k x k block that
\* invert_vdm leaves in the temp matrix is the inverse of the block fec_new
\* built (row 0 = (1,0,...,0), the later rows powers of alpha): the block
\* as built times the block as left is the identity.
C21_FecNewBlockInverted ==
    (Last("fec_new") /\ op.ret = "desc" /\ codec.k >= 1) =>
        /\ TempRow0
        /\ RefProduct(GF_BITS, op.tmp_m, TempInverted, codec.k) = Identity(codec.k)

\* fec_new with k = 2^m, every field element an evaluation point, and an
\* inverse that differs from the block it came from
C21_Witness ==
    /\ Last("fec_new") /\ op.ret = "desc"
    /\ codec.k = GF_SIZE(GF_BITS) + 1
    /\ codec.k >= 3
    /\ \E x \in 0 .. codec.k * codec.k - 1 : TempInverted[x] # op.tmp_m[x]


\* C22: two-phase recovery in fec_decode.  No received buffer pkt[i] is
\* written until the rebuilt symbols of all rows with index[row] >= k have
\* been computed from the received buffers: every read of a packet buffer
\* comes before every write of one, and each rebuilt symbol is the
\* combination of the buffers as they were received.
C22_TwoPhaseRecovery ==
    (Last("fec_decode") /\ op.ret = 0) =>
        /\ \A a, b \in DOMAIN op.access :
              (op.access[a].ev = "write" /\ op.access[b].ev = "read") => b < a
        /\ \E md \in {build_decode_matrix(GF_BITS, Tables, codec, idxs)},
              el \in {Elements(GF_BITS, data.sz)} :
              \A row \in 0 .. codec.k - 1 :
                  idxs[row] >= codec.k =>
                      \E new \in {fec_decode_row(GF_BITS, Tables, codec.k, md.matrix,
                                                 pkts, op.mem_in, el, row, 0,
                                                 [j \in 0 .. el - 1 |-> 0])} :
                          \A j \in 0 .. el - 1 : heap[pkts[row]][j] = new[j]

\* a decode that rebuilt two rows, one of them from a buffer that the other
\* overwrote afterwards with different content
C22_Witness ==
    /\ Last("fec_decode") /\ op.ret = 0
    /\ \E a, b \in DOMAIN op.access :
          /\ op.access[b].ev = "read"
          /\ op.access[a].ev = "write"
          /\ op.access[a].buf = op.access[b].buf
          /\ op.access[a].row < op.access[b].row
          /\ heap[op.access[a].buf] # op.mem_in[op.access[a].buf]


\* C23: shuffle terminates for every k >= 1 and every index array whose
\* entries lie in [0,n): it returns after at most k swaps (and at most 2k
\* passes through its loop), and every position of index[] and pkt[] that it
\* reads or writes is in [0,k).
C23_ShuffleBounded ==
    (Last("shuffle") /\ ShuffleInRange) =>
        /\ op.ret \in {0, 1}
        /\ op.swaps <= op.k
        /\ op.steps <= 2 * op.k
        /\ op.pos \subseteq 0 .. op.k - 1
        /\ op.index[-1] = op.index_in[-1] /\ op.index[op.k] = op.index_in[op.k]
        /\ op.pkt[-1] = op.pkt_in[-1] /\ op.pkt[op.k] = op.pkt_in[op.k]

\* a call on indexes in range that needed k-1 swaps, with an index at the
\* value k in the array
C23_Witness ==
    /\ Last("shuffle") /\ ShuffleInRange
    /\ op.k >= 3
    /\ op.swaps = op.k - 1
    /\ op.ret = 0
    /\ \E i \in 0 .. op.k - 1 : op.index_in[i] = op.k


-----------------------------------------------------------------------------
(* The indexes init_fec applies to gf_exp, gf_log and inverse.              *)

\* the values of CODE (lines 50-52)
ORIGINAL_ONLY == 1
SSE_INTRINSICS == 2
VECTOR_EXTENSIONS == 3

\* the builds that compile for a field size: line 81 refuses the two SIMD
\* codes when GF_BITS <= 8
Builds(m) ==
    IF m > TableMaxBits THEN {ORIGINAL_ONLY, SSE_INTRINSICS, VECTOR_EXTENSIONS}
    ELSE {ORIGINAL_ONLY}

\* the declared bounds (lines 182-184): gf_exp[2*GF_SIZE], gf_log[GF_SIZE+1],
\* inverse[GF_SIZE+1].  A use is the pair of a table and an index.
InBounds(m, u) ==
    IF u[1] = "gf_exp" THEN u[2] >= 0 /\ u[2] <= 2 * GF_SIZE(m) - 1
    ELSE u[2] >= 0 /\ u[2] <= GF_SIZE(m)

\* what a read of gf_log[x] gives: the stored logarithm, or, for x beyond the
\* array, whatever 16 bits lie there, of which the two extremes are kept
gf_log_read(m, T, x) ==
    IF x \in DOMAIN T.gf_log THEN {T.gf_log[x]} ELSE {0, Pow2(GfWidth(m)) - 1}

\* generate_gf, lines 385-437: the uses in program order of the loops, on the
\* tables T that generate_gf leaves (every cell is stored once, except
\* gf_exp[GF_BITS], which is complete when line 404 reads it)
generate_gf_uses(m, T) ==
    LET N == GF_SIZE(m)
    IN  {<<"gf_exp", m>>}
        \cup UNION {{<<"gf_exp", i>>, <<"gf_log", T.gf_exp[i]>>} : i \in 0 .. m - 1}
        \cup {<<"gf_log", T.gf_exp[m]>>}
        \cup UNION {{<<"gf_exp", i - 1>>, <<"gf_exp", m>>, <<"gf_exp", i>>,
                     <<"gf_log", T.gf_exp[i]>>} : i \in m + 1 .. N - 1}
        \cup {<<"gf_log", 0>>}
        \cup UNION {{<<"gf_exp", i + N>>, <<"gf_exp", i>>} : i \in 0 .. N - 1}
        \cup {<<"inverse", 0>>, <<"inverse", 1>>}
        \cup UNION {{<<"inverse", i>>, <<"gf_log", i>>,
                     <<"gf_exp", N - T.gf_log[i]>>} : i \in 2 .. N}

\* gf_mul(x, y) with GF_BITS > 8, lines 280-286
gf_mul_uses(m, T, x, y) ==
    IF x = 0 \/ y = 0 THEN {}
    ELSE {<<"gf_log", x>>, <<"gf_log", y>>}
         \cup {<<"gf_exp", lx + ly>> : lx \in gf_log_read(m, T, x),
                                       ly \in gf_log_read(m, T, y)}

\* init_mul_table: with GF_BITS <= 8 lines 268-278, every pair through
\* modnn; with GF_BITS > 8 nothing in the scalar build, and in the SIMD
\* builds lines 289-313, gf_mul(i, j << 4t) for every i, every nibble j and
\* t = 0 .. 3
init_mul_table_uses(m, T, code) ==
    LET N == GF_SIZE(m)
    IN  IF m <= TableMaxBits
        THEN UNION {{<<"gf_log", i>>, <<"gf_log", j>>,
                     <<"gf_exp", modnn(m, T.gf_log[i] + T.gf_log[j])>>} :
                        i \in 0 .. N, j \in 0 .. N}
        ELSE IF code = ORIGINAL_ONLY THEN {}
        ELSE UNION {gf_mul_uses(m, T, i, j * Pow2(4 * t)) :
                        i \in 0 .. N, j \in 0 .. 15, t \in 0 .. 3}

\* the uses of init_fec in the build code, seen when generate_gf has
\* finished and init_mul_table is about to run
init_fec_uses(code) ==
    generate_gf_uses(GF_BITS, Tables) \cup init_mul_table_uses(GF_BITS, Tables, code)

\* C24: during init_fec, for every GF_BITS and every build (the scalar one,
\* and the SIMD ones for GF_BITS > 8), every index used to read or write
\* gf_log, inverse and gf_exp lies within the declared bounds of the table.
C24_InitIndexesInBounds ==
    (\E t \in DOMAIN pc : At(t, "init_mul_table")) =>
        \A code \in Builds(GF_BITS) :
            \A u \in init_fec_uses(code) : InBounds(GF_BITS, u)

\* the same for the scalar build alone
InitIndexesInBoundsScalar ==
    (\E t \in DOMAIN pc : At(t, "init_mul_table")) =>
        \A u \in init_fec_uses(ORIGINAL_ONLY) : InBounds(GF_BITS, u)


-----------------------------------------------------------------------------
(* Size specification: the products fec_new forms from its int32_t          *)
(* parameters.                                                              *)

\* the largest field: GF_BITS is at most 16 (line 74 sets it by default)
MaxGfBits == 16

\* how far from a power of two the parameters of the size specification lie
Near == 1

\* the width of int32_t, the type of k and n (line 1185)
Int32Bits == 32

\* an integer q * 2^16 + r, written <<q, r>> with 0 <= r < 2^16: the
\* mathematical values the size arithmetic is compared with
HalfWord == Pow2(Int32Bits \div 2)
Byte == Pow2(Int32Bits \div 4)

\* the mathematical product a * b of 0 <= a, b <= 2^17, formed from the two
\* partial products of a with the low byte and with the rest of b
Wide(a, b) ==
    LET x   == a * (b \div Byte)
        y   == a * (b % Byte)
        low == (x % Byte) * Byte + (y % HalfWord)
    IN  <<(x \div Byte) + (y \div HalfWord) + (low \div HalfWord), low % HalfWord>>

\* int32_t holds the value w
Fits32(w) == w[1] >= -(HalfWord \div 2) /\ w[1] < HalfWord \div 2

\* the value of the 32-bit two's complement word that holds w
Wrap32(w) ==
    LET h == w[1] % HalfWord
    IN  <<IF h >= HalfWord \div 2 THEN h - HalfWord ELSE h, w[2]>>

\* a * b on int32_t operands: the product when int32_t holds it; when it
\* does not, the multiplication overflows and the build decides what comes
\* out, the wrapped word or the product carried in a wider register
int32_mul(a, b) ==
    LET w == Wide(a, b)
    IN  IF Fits32(w) THEN {w} ELSE {Wrap32(w), w}

\* fec_new(k, n), the guard of line 1195 and the products behind it: n * k
\* in NEW_GF_MATRIX(n, k) (lines 1203 and 1205), k * k in tmp_m + k*k and
\* enc_matrix + k*k (line 1238) and in the memset of line 1247
fec_new_sizes(m, k, n) ==
    IF k > GF_SIZE(m) + 1 \/ n > GF_SIZE(m) + 1 \/ k > n
    THEN {[accepted |-> FALSE, nk |-> <<0, 0>>, kk |-> <<0, 0>>]}
    ELSE {[accepted |-> TRUE, nk |-> a, kk |-> b] :
             a \in int32_mul(n, k), b \in int32_mul(k, k)}

\* the parameters tried: next to the powers of two and at three times one
Sizes ==
    {s \in {Pow2(a) + d : a \in 0 .. MaxGfBits, d \in -Near .. Near}
            \cup {3 * Pow2(a) : a \in 0 .. MaxGfBits - 2} : s >= 1}

\* the caller asks for a code (k, n); only the size arithmetic of the call
\* is followed.  The arithmetic depends on the build through GF_SIZE in the
\* guard alone: it is followed for the field size m of the state and for
\* the largest one, whose tables the state does not hold.
FecNewSizes ==
    /\ op.name = "none"
    /\ \E m \in {GF_BITS, MaxGfBits}, k, n \in Sizes :
         \E r \in fec_new_sizes(m, k, n) :
            op' = [name |-> "fec_new_sizes", m |-> m, k |-> k, n |-> n,
                   accepted |-> r.accepted, nk |-> r.nk, kk |-> r.kk]
    /\ UNCHANGED <<buildvars, tabvars, fec_initialized, pc, init_runs, codecvars>>

InitSizes == InitBuild(2 .. MaxBitsSmall, {FALSE}, {FALSE}, 1)

NextSizes == FecNewSizes

SpecSizes == InitSizes /\ [][NextSizes]_vars

\* C25: for every (k, n) that fec_new accepts, up to k = n = 2^m with
\* m = 16, the products n*k and k*k that fec_new evaluates in signed 32-bit
\* arithmetic equal the mathematical products.
C25_ProductsExact ==
    (Last("fec_new_sizes") /\ op.accepted) =>
        /\ op.nk = Wide(op.n, op.k)
        /\ op.kk = Wide(op.k, op.k)

\* the same for the codes whose n * k fits in an int32_t
ProductsExactWhenSmall ==
    (Last("fec_new_sizes") /\ op.accepted /\ Fits32(Wide(op.n, op.k))) =>
        /\ op.nk = Wide(op.n, op.k)
        /\ op.kk = Wide(op.k, op.k)


\* the largest code of the largest field whose products fit: k = 2^15 and
\* n = 2^16 - 1 (n * k = 2^31 - 2^15)
LargestFitReached ==
    /\ Last("fec_new_sizes") /\ op.accepted
    /\ op.m = MaxGfBits
    /\ op.k = HalfWord \div 2
    /\ op.n = HalfWord - 1
    /\ op.nk = Wide(op.n, op.k)

====
